---- MODULE Spec2Model ----
(***************************************************************************)
(* A model of go-uploader's resumable chunked-upload core:                 *)
(*   - ChunkSessionStore (the in-memory session registry),                 *)
(*   - Manager's chunked protocol (Initiate/Upload/Complete/Abort),        *)
(*   - FSProvider's chunk operations (the backend the Manager drives).     *)
(* Go maps are reference objects: UploadedParts maps live in `heap' and a  *)
(* session record holds a reference, so that cloneChunkSession's sharing   *)
(* of a map is visible.  Time is an integer clock; 0 is Go's zero Time.    *)
(***************************************************************************)
EXTENDS Integers, Sequences, FiniteSets, TLC

\* ------------------------------------------------------------------ bounds
MaxTime == 3          \* the clock runs 1..MaxTime
TTL == 1              \* ChunkSessionStore.ttl, in clock units

IDs == {"s1", "s2"}   \* session ids callers use
Keys == {"a.bin"}     \* destination keys
Threads == {"t1", "t2"}

\* --------------------------------------------------------------- constants
NoTime == 0           \* time.Time{} : IsZero()
NilRef == 0           \* a nil map
Nil == [nil |-> TRUE] \* a nil pointer / absent map entry
Free == "free"        \* an unlocked sync.RWMutex

ChunkSessionStateActive == "active"
ChunkSessionStateCompleted == "completed"
ChunkSessionStateAborted == "aborted"

OK == "ok"
ErrValidation == "validation"
ErrChunkSessionNotFound == "CHUNK_SESSION_NOT_FOUND"
ErrChunkSessionExists == "CHUNK_SESSION_EXISTS"
ErrChunkSessionClosed == "CHUNK_SESSION_CLOSED"
ErrChunkPartOutOfRange == "CHUNK_PART_OUT_OF_RANGE"
ErrChunkPartDuplicate == "CHUNK_PART_DUPLICATE"
ErrInvalidPath == "INVALID_PATH"
ErrBackend == "backend"          \* an I/O error a storage backend returns
ErrNoParts == "no parts"         \* "fs provider: no parts uploaded for session"
ErrOpenChunk == "open chunk"     \* "fs provider: open chunk": no such file
ErrProviderNotConfigured == "PROVIDER_NOT_CONFIGURED"
ErrNotImplemented == "NOT_IMPLEMENTED"
ErrProviderValidation == "provider validation"  \* the error a provider's Validate returns
CallbackModeStrict == "strict"
CallbackModeBestEffort == "best_effort"
SyncExecutor == "syncCallbackExecutor"
AsyncExecutor == "AsyncCallbackExecutor"
ErrCallback == "callback"        \* the error a failing UploadCallback returns

VARIABLES
  now,       \* the clock read by ChunkSessionStore.timeNow
  sessions,  \* ChunkSessionStore.sessions : id -> *ChunkSession (Nil = absent)
  heap,      \* the UploadedParts map objects: ref -> (index -> ChunkPart)
  held,      \* a session copy a caller of the store kept (Nil = none)
  last,      \* the last direct store call (arguments, pre-state, result), or
             \* the Manager call that returned in the latest step
  thr,       \* the Manager calls in flight, one per thread
  fs,        \* FSProvider's directory tree: staged chunks and final files
             \* (and the files of a MultiProvider's local provider)
  hist,      \* history: what the backend and the Manager have done so far
  mgr,       \* the Manager's configuration: its provider
  mu,        \* ChunkSessionStore.mu: Free, or the caller holding it
  up         \* whole-file uploads: the callback configuration, the HandleFile
             \* call in progress, the memory provider and the callbacks' runs

vars == <<now, sessions, heap, held, last, thr, fs, hist, mgr, mu, up>>

\* -------------------------------------------------------------------- heap
Refs == 1..(Cardinality(IDs) + Cardinality(Threads) + 3)
EmptyMap == <<>>

Min(S) == CHOOSE x \in S : \A y \in S : x <= y

\* len(m) of a Go map (len of a nil map is 0)
MapLen(h, r) == IF r = NilRef THEN 0 ELSE Cardinality(DOMAIN h[r])

\* the map's contents as a value (a nil map reads as empty)
MapVal(h, r) == IF r = NilRef THEN EmptyMap ELSE h[r]

\* make(map[int]ChunkPart): a fresh object, not among `used'
Alloc(used) == Min(Refs \ used)

\* m[k] = v
MapPut(m, k, v) == [x \in DOMAIN m \cup {k} |-> IF x = k THEN v ELSE m[x]]

\* ------------------------------------------------------------------- types
\* ChunkPart (Checksum and ETag are opaque strings no code path of the model
\* reads; Size stands for the bytes written)
ChunkPart(index, size, uploadedAt) ==
  [Index |-> index, Size |-> size, UploadedAt |-> uploadedAt]

\* ProviderData map[string]any: nil, or a set of <<key, value>> entries.  No
\* operation of the store, the Manager or FSProvider writes a ProviderData map
\* after it was built, so the map is kept by value.
NilData == [isNil |-> TRUE, kv |-> {}]
EmptyData == [isNil |-> FALSE, kv |-> {}]

\* ChunkSession; UploadedParts is a reference into the heap (NilRef = nil map)
ChunkSession(id, key, createdAt, expiresAt, state, parts, pdata) ==
  [ID |-> id, Key |-> key, CreatedAt |-> createdAt, ExpiresAt |-> expiresAt,
   State |-> state, UploadedParts |-> parts, ProviderData |-> pdata]

\* ------------------------------------------------------- ChunkSessionStore
\* cloneChunkSession: a struct copy, with the Metadata struct copied, and the
\* UploadedParts / ProviderData maps copied only when they are not empty.
cloneChunkSession(h, used, in) ==
  IF in = Nil THEN [s |-> Nil, h |-> h, used |-> used]
  ELSE IF MapLen(h, in.UploadedParts) > 0
       THEN LET r == Alloc(used)
            IN [s |-> [in EXCEPT !.UploadedParts = r],
                h |-> [h EXCEPT ![r] = h[in.UploadedParts]],
                used |-> used \cup {r}]
       ELSE [s |-> in, h |-> h, used |-> used]

\* the shape every store operation returns: the registry and heap after the
\* call, the error (OK = nil) and the session copy handed to the caller
\* (`defer s.mu.Unlock()': whatever the return, the lock is released)
\* a store method that returns an error without releasing the lock
Ret_HeldOnError(ss, h, used, err, out) ==
  [sessions |-> ss, heap |-> h, used |-> used, err |-> err, out |-> out,
   locked |-> err # OK]

Ret(ss, h, used, err, out) ==
  [sessions |-> ss, heap |-> h, used |-> used, err |-> err, out |-> out,
   locked |-> FALSE]

\* Create without the `exists' check: a colliding session replaces the stored
Create_Replace(ss, h, used, t, in) ==
  IF in = Nil THEN Ret(ss, h, used, ErrValidation, Nil)
  ELSE IF in.ID = "" THEN Ret(ss, h, used, ErrValidation, Nil)
  ELSE IF in.Key = "" THEN Ret(ss, h, used, ErrValidation, Nil)
  ELSE
    LET createdAt == IF in.CreatedAt = NoTime THEN t ELSE in.CreatedAt
        expiresAt == IF in.ExpiresAt = NoTime THEN createdAt + TTL ELSE in.ExpiresAt
        mk == in.UploadedParts = NilRef
        r0 == IF mk THEN Alloc(used) ELSE in.UploadedParts
        h0 == IF mk THEN [h EXCEPT ![r0] = EmptyMap] ELSE h
        used0 == used \cup {r0}
        pdata == IF in.ProviderData.isNil THEN EmptyData ELSE in.ProviderData
        state == IF in.State = "" THEN ChunkSessionStateActive ELSE in.State
        session == ChunkSession(in.ID, in.Key, createdAt, expiresAt, state, r0, pdata)
        stored == cloneChunkSession(h0, used0, session)
        out == cloneChunkSession(stored.h, stored.used, stored.s)
    IN Ret([ss EXCEPT ![in.ID] = stored.s], out.h, out.used,
           IF ss[in.ID] # Nil THEN ErrChunkSessionExists ELSE OK, out.s)

\* Create with the default expiry taken as the creation time, TTL not added
Create_NoTTL(ss, h, used, t, in) ==
  IF in = Nil THEN Ret(ss, h, used, ErrValidation, Nil)
  ELSE IF in.ID = "" THEN Ret(ss, h, used, ErrValidation, Nil)
  ELSE IF in.Key = "" THEN Ret(ss, h, used, ErrValidation, Nil)
  ELSE
    LET createdAt == IF in.CreatedAt = NoTime THEN t ELSE in.CreatedAt
        expiresAt == IF in.ExpiresAt = NoTime THEN createdAt ELSE in.ExpiresAt
        mk == in.UploadedParts = NilRef
        r0 == IF mk THEN Alloc(used) ELSE in.UploadedParts
        h0 == IF mk THEN [h EXCEPT ![r0] = EmptyMap] ELSE h
        used0 == used \cup {r0}
        pdata == IF in.ProviderData.isNil THEN EmptyData ELSE in.ProviderData
        state == IF in.State = "" THEN ChunkSessionStateActive ELSE in.State
        session == ChunkSession(in.ID, in.Key, createdAt, expiresAt, state, r0, pdata)
    IN IF ss[in.ID] # Nil
       THEN Ret(ss, h0, used0, ErrChunkSessionExists, Nil)
       ELSE LET stored == cloneChunkSession(h0, used0, session)
                out == cloneChunkSession(stored.h, stored.used, stored.s)
            IN Ret([ss EXCEPT ![in.ID] = stored.s], out.h, out.used, OK, out.s)

\* Create without the check of the key
Create_NoKeyCheck(ss, h, used, t, in) ==
  IF in = Nil THEN Ret(ss, h, used, ErrValidation, Nil)
  ELSE IF in.ID = "" THEN Ret(ss, h, used, ErrValidation, Nil)
  ELSE
    LET createdAt == IF in.CreatedAt = NoTime THEN t ELSE in.CreatedAt
        expiresAt == IF in.ExpiresAt = NoTime THEN createdAt + TTL ELSE in.ExpiresAt
        mk == in.UploadedParts = NilRef
        r0 == IF mk THEN Alloc(used) ELSE in.UploadedParts
        h0 == IF mk THEN [h EXCEPT ![r0] = EmptyMap] ELSE h
        used0 == used \cup {r0}
        pdata == IF in.ProviderData.isNil THEN EmptyData ELSE in.ProviderData
        state == IF in.State = "" THEN ChunkSessionStateActive ELSE in.State
        session == ChunkSession(in.ID, in.Key, createdAt, expiresAt, state, r0, pdata)
    IN IF ss[in.ID] # Nil
       THEN Ret(ss, h0, used0, ErrChunkSessionExists, Nil)
       ELSE LET stored == cloneChunkSession(h0, used0, session)
                out == cloneChunkSession(stored.h, stored.used, stored.s)
            IN Ret([ss EXCEPT ![in.ID] = stored.s], out.h, out.used, OK, out.s)

\* ChunkSessionStore.Create.  `in' is the caller's *ChunkSession; `t' is the
\* value timeNow() returns.
Create(ss, h, used, t, in) ==
  IF in = Nil THEN Ret(ss, h, used, ErrValidation, Nil)
  ELSE IF in.ID = "" THEN Ret(ss, h, used, ErrValidation, Nil)
  ELSE IF in.Key = "" THEN Ret(ss, h, used, ErrValidation, Nil)
  ELSE
    LET createdAt == IF in.CreatedAt = NoTime THEN t ELSE in.CreatedAt
        expiresAt == IF in.ExpiresAt = NoTime THEN createdAt + TTL ELSE in.ExpiresAt
        mk == in.UploadedParts = NilRef
        r0 == IF mk THEN Alloc(used) ELSE in.UploadedParts
        h0 == IF mk THEN [h EXCEPT ![r0] = EmptyMap] ELSE h
        used0 == used \cup {r0}
        pdata == IF in.ProviderData.isNil THEN EmptyData ELSE in.ProviderData
        state == IF in.State = "" THEN ChunkSessionStateActive ELSE in.State
        session == ChunkSession(in.ID, in.Key, createdAt, expiresAt, state, r0, pdata)
    IN IF ss[in.ID] # Nil
       THEN Ret(ss, h0, used0, ErrChunkSessionExists, Nil)
       ELSE LET stored == cloneChunkSession(h0, used0, session)
                out == cloneChunkSession(stored.h, stored.used, stored.s)
            IN Ret([ss EXCEPT ![in.ID] = stored.s], out.h, out.used, OK, out.s)

\* Get without its `defer s.mu.RUnlock()'
Get_NoUnlock(ss, h, used, t, id) ==
  IF ss[id] = Nil THEN Ret(ss, h, used, ErrChunkSessionNotFound, Nil)
  ELSE IF t > ss[id].ExpiresAt THEN Ret(ss, h, used, ErrChunkSessionNotFound, Nil)
  ELSE LET c == cloneChunkSession(h, used, ss[id])
       IN [Ret(ss, c.h, c.used, OK, c.s) EXCEPT !.locked = TRUE]

\* ChunkSessionStore.Get: (copy, true) as OK, (nil, false) as NotFound
Get(ss, h, used, t, id) ==
  IF ss[id] = Nil THEN Ret(ss, h, used, ErrChunkSessionNotFound, Nil)
  ELSE IF t > ss[id].ExpiresAt THEN Ret(ss, h, used, ErrChunkSessionNotFound, Nil)
  ELSE LET c == cloneChunkSession(h, used, ss[id])
       IN Ret(ss, c.h, c.used, OK, c.s)

\* Delete emptying the whole registry
Delete_All(ss, h, used, id) ==
  Ret([i \in IDs |-> Nil], h, used, OK, Nil)

\* Delete leaving the session in the registry
Delete_Noop(ss, h, used, id) ==
  Ret(ss, h, used, OK, Nil)

\* ChunkSessionStore.Delete
Delete(ss, h, used, id) ==
  Ret([ss EXCEPT ![id] = Nil], h, used, OK, Nil)

\* AddPart without the duplicate check: a second part overwrites the first
AddPart_Overwrite(ss, h, used, t, id, part) ==
  IF part.Index < 0 THEN Ret(ss, h, used, ErrChunkPartOutOfRange, Nil)
  ELSE IF ss[id] = Nil THEN Ret(ss, h, used, ErrChunkSessionNotFound, Nil)
  ELSE IF t > ss[id].ExpiresAt
       THEN Ret([ss EXCEPT ![id] = Nil], h, used, ErrChunkSessionNotFound, Nil)
  ELSE IF ss[id].State # ChunkSessionStateActive
       THEN Ret(ss, h, used, ErrChunkSessionClosed, Nil)
  ELSE
    LET p == IF part.UploadedAt = NoTime THEN [part EXCEPT !.UploadedAt = t] ELSE part
        r == ss[id].UploadedParts
        h1 == [h EXCEPT ![r] = MapPut(h[r], p.Index, p)]
        c == cloneChunkSession(h1, used, ss[id])
    IN Ret(ss, c.h, c.used, OK, c.s)

\* AddPart that reports an expired session without purging it
AddPart_NoPurge(ss, h, used, t, id, part) ==
  IF part.Index < 0 THEN Ret(ss, h, used, ErrChunkPartOutOfRange, Nil)
  ELSE IF ss[id] = Nil THEN Ret(ss, h, used, ErrChunkSessionNotFound, Nil)
  ELSE IF t > ss[id].ExpiresAt
       THEN Ret(ss, h, used, ErrChunkSessionNotFound, Nil)
  ELSE IF ss[id].State # ChunkSessionStateActive
       THEN Ret(ss, h, used, ErrChunkSessionClosed, Nil)
  ELSE IF part.Index \in DOMAIN h[ss[id].UploadedParts]
       THEN Ret(ss, h, used, ErrChunkPartDuplicate, Nil)
  ELSE
    LET p == IF part.UploadedAt = NoTime THEN [part EXCEPT !.UploadedAt = t] ELSE part
        r == ss[id].UploadedParts
        h1 == [h EXCEPT ![r] = MapPut(h[r], p.Index, p)]
        c == cloneChunkSession(h1, used, ss[id])
    IN Ret(ss, c.h, c.used, OK, c.s)

\* AddPart that writes the part into a private copy of the map it read, so
\* that the next writer starts from the old map (a lost update)
AddPart_LostUpdate(ss, h, used, t, id, part) ==
  IF part.Index < 0 THEN Ret(ss, h, used, ErrChunkPartOutOfRange, Nil)
  ELSE IF ss[id] = Nil THEN Ret(ss, h, used, ErrChunkSessionNotFound, Nil)
  ELSE IF t > ss[id].ExpiresAt
       THEN Ret([ss EXCEPT ![id] = Nil], h, used, ErrChunkSessionNotFound, Nil)
  ELSE IF ss[id].State # ChunkSessionStateActive
       THEN Ret(ss, h, used, ErrChunkSessionClosed, Nil)
  ELSE IF part.Index \in DOMAIN h[ss[id].UploadedParts]
       THEN Ret(ss, h, used, ErrChunkPartDuplicate, Nil)
  ELSE
    LET p == IF part.UploadedAt = NoTime THEN [part EXCEPT !.UploadedAt = t] ELSE part
        r == ss[id].UploadedParts
        h1 == [h EXCEPT ![r] = (p.Index :> p)]
        c == cloneChunkSession(h1, used, ss[id])
    IN Ret(ss, c.h, c.used, OK, c.s)

\* ChunkSessionStore.AddPart
AddPart(ss, h, used, t, id, part) ==
  IF part.Index < 0 THEN Ret(ss, h, used, ErrChunkPartOutOfRange, Nil)
  ELSE IF ss[id] = Nil THEN Ret(ss, h, used, ErrChunkSessionNotFound, Nil)
  ELSE IF t > ss[id].ExpiresAt
       THEN Ret([ss EXCEPT ![id] = Nil], h, used, ErrChunkSessionNotFound, Nil)
  ELSE IF ss[id].State # ChunkSessionStateActive
       THEN Ret(ss, h, used, ErrChunkSessionClosed, Nil)
  ELSE IF part.Index \in DOMAIN h[ss[id].UploadedParts]
       THEN Ret(ss, h, used, ErrChunkPartDuplicate, Nil)
  ELSE
    LET p == IF part.UploadedAt = NoTime THEN [part EXCEPT !.UploadedAt = t] ELSE part
        r == ss[id].UploadedParts
        h1 == [h EXCEPT ![r] = MapPut(h[r], p.Index, p)]
        c == cloneChunkSession(h1, used, ss[id])
    IN Ret(ss, c.h, c.used, OK, c.s)

\* updateState without the check that the session is still active
updateState_NoGuard(ss, h, used, id, newState) ==
  IF ss[id] = Nil THEN Ret(ss, h, used, ErrChunkSessionNotFound, Nil)
  ELSE LET ss1 == [ss EXCEPT ![id].State = newState]
           c == cloneChunkSession(h, used, ss1[id])
       IN Ret(ss1, c.h, c.used, OK, c.s)

\* ChunkSessionStore.updateState
updateState(ss, h, used, id, newState) ==
  IF ss[id] = Nil THEN Ret(ss, h, used, ErrChunkSessionNotFound, Nil)
  ELSE IF ss[id].State # ChunkSessionStateActive
       THEN Ret(ss, h, used, ErrChunkSessionClosed, Nil)
  ELSE LET ss1 == [ss EXCEPT ![id].State = newState]
           c == cloneChunkSession(h, used, ss1[id])
       IN Ret(ss1, c.h, c.used, OK, c.s)

\* ChunkSessionStore.MarkCompleted
MarkCompleted(ss, h, used, id) ==
  updateState(ss, h, used, id, ChunkSessionStateCompleted)

\* ChunkSessionStore.MarkAborted
MarkAborted(ss, h, used, id) ==
  updateState(ss, h, used, id, ChunkSessionStateAborted)

\* ChunkSessionStore.CleanupExpired: the registry afterwards and the removed
\* ids (the Go slice is in map-iteration order; kept as a set)
ExpiredIDs(ss, t) == {id \in IDs : ss[id] # Nil /\ ~(t < ss[id].ExpiresAt)}

\* CleanupExpired removing only the sessions `now' is strictly after
CleanupExpired_After(ss, t) ==
  [sessions |-> [id \in IDs |->
                   IF ss[id] # Nil /\ t > ss[id].ExpiresAt THEN Nil ELSE ss[id]],
   removed |-> {id \in IDs : ss[id] # Nil /\ t > ss[id].ExpiresAt}]

CleanupExpired(ss, t) ==
  [sessions |-> [id \in IDs |-> IF id \in ExpiredIDs(ss, t) THEN Nil ELSE ss[id]],
   removed |-> ExpiredIDs(ss, t)]

\* ------------------------------------------------------ values and the heap
\* what a deep comparison of a session sees: its fields and the contents of
\* its UploadedParts map
SView(h, s) ==
  IF s = Nil THEN Nil
  ELSE [ID |-> s.ID, Key |-> s.Key, CreatedAt |-> s.CreatedAt,
        ExpiresAt |-> s.ExpiresAt, State |-> s.State,
        Parts |-> MapVal(h, s.UploadedParts), ProviderData |-> s.ProviderData]

View(ss, h) == [id \in IDs |-> SView(h, ss[id])]

RefOf(s) == IF s = Nil THEN NilRef ELSE s.UploadedParts

IDSeq == <<"s1", "s2">>
ThreadSeq == <<"t1", "t2">>

\* the map objects reachable from the registry, the caller's kept copy and the
\* sessions the Manager calls in flight hold, in a fixed order
RootSeq(ss, hd, th) ==
  [i \in 1..Len(IDSeq) |-> RefOf(ss[IDSeq[i]])]
    \o <<IF hd = Nil THEN NilRef ELSE RefOf(hd.s)>>
    \o [i \in 1..Len(ThreadSeq) |-> RefOf(th[ThreadSeq[i]].session)]

LiveOf(roots) == {roots[i] : i \in DOMAIN roots} \ {NilRef}

Live == LiveOf(RootSeq(sessions, held, thr))

\* Garbage collection: unreachable map objects are dropped and the reachable
\* ones renumbered in root order (an address is not observable in Go).
Rank(roots, r) ==
  LET first(q) == Min({i \in DOMAIN roots : roots[i] = q})
  IN Cardinality({q \in LiveOf(roots) : first(q) <= first(r)})

Rename(roots, s) ==
  IF s = Nil \/ RefOf(s) = NilRef THEN s
  ELSE [s EXCEPT !.UploadedParts = Rank(roots, s.UploadedParts)]

Collect(roots, h) ==
  [k \in Refs |->
     IF \E r \in LiveOf(roots) : Rank(roots, r) = k
     THEN h[CHOOSE r \in LiveOf(roots) : Rank(roots, r) = k]
     ELSE EmptyMap]

\* the next registry, heap, kept copy and in-flight calls
Commit(ss, h, hd, th) ==
  LET roots == RootSeq(ss, hd, th)
  IN /\ sessions' = [id \in IDs |-> Rename(roots, ss[id])]
     /\ heap' = Collect(roots, h)
     /\ held' = IF hd = Nil THEN Nil ELSE [hd EXCEPT !.s = Rename(roots, hd.s)]
     /\ thr' = [t \in Threads |-> [th[t] EXCEPT !.session = Rename(roots, @)]]

\* ----------------------------------------------- direct calls of the store
\* The callers of a ChunkSessionStore: each action is one call, atomic because
\* the store holds its lock from the first read of the registry to the return.
\* mode "store" records the call in `last'; mode "alias" lets the caller keep
\* the returned copy in `held'.
NoCall == [op |-> "none", id |-> "", err |-> OK, t |-> NoTime, arg |-> Nil,
           pre |-> [id \in IDs |-> Nil], out |-> Nil, removed |-> {},
           reuse |-> FALSE]

Call(op, id, err, arg, out, removed) ==
  [op |-> op, id |-> id, err |-> err, t |-> now, arg |-> arg,
   pre |-> View(sessions, heap), out |-> out, removed |-> removed,
   reuse |-> FALSE]

\* the call about to be made reuses an id: the call before it was the Delete
\* that removed a session of this id which had parts or was closed
Reuses(id) ==
  /\ last.op = "Delete" /\ last.id = id /\ last.pre[id] # Nil
  /\ (last.pre[id].Parts # EmptyMap \/ last.pre[id].State # ChunkSessionStateActive)

\* the copy a caller keeps: the session and what its UploadedParts held when
\* the store handed it out
Keep(r) == [s |-> r.out, parts0 |-> MapVal(r.heap, RefOf(r.out))]

Finish(mode, r, call) ==
  /\ mu = Free
  /\ mu' = IF r.locked THEN "caller" ELSE Free
  /\ IF mode = "store"
     THEN last' = call /\ Commit(r.sessions, r.heap, held, thr)
     ELSE /\ last' = last
          /\ \E keep \in BOOLEAN :
               Commit(r.sessions, r.heap,
                      IF keep /\ r.out # Nil THEN Keep(r) ELSE held, thr)
  /\ UNCHANGED <<now, fs, hist, mgr, up>>

\* the sessions callers pass to Create: the caller's object, its UploadedParts
\* given by value (NilParts: a nil map)
SessionInput(id, key, createdAt, expiresAt, state, nilParts, parts) ==
  [ID |-> id, Key |-> key, CreatedAt |-> createdAt, ExpiresAt |-> expiresAt,
   State |-> state, NilParts |-> nilParts, Parts |-> parts]

CreateInputs(ids) ==
  {SessionInput("", "a.bin", NoTime, NoTime, "", TRUE, EmptyMap)}
  \cup {SessionInput(id, "", NoTime, NoTime, "", TRUE, EmptyMap) : id \in ids}
  \cup {SessionInput(id, "a.bin", NoTime, NoTime, "", TRUE, EmptyMap) : id \in ids}
  \cup {SessionInput(id, "a.bin", NoTime, NoTime, "", FALSE, EmptyMap) : id \in ids}
  \cup {SessionInput(id, "a.bin", 1, 1, ChunkSessionStateActive, TRUE, EmptyMap) : id \in ids}
  \cup {SessionInput(id, "a.bin", NoTime, NoTime, ChunkSessionStateCompleted,
                     FALSE, (0 :> ChunkPart(0, 1, 1))) : id \in ids}

StoreCreate(mode, i) ==
  LET nilParts == i.NilParts
      r0 == Alloc(Live)
      \* the caller's session object and, unless nil, its UploadedParts map
      in == ChunkSession(i.ID, i.Key, i.CreatedAt, i.ExpiresAt, i.State,
                         IF nilParts THEN NilRef ELSE r0, NilData)
      h0 == IF nilParts THEN heap ELSE [heap EXCEPT ![r0] = i.Parts]
      used0 == IF nilParts THEN Live ELSE Live \cup {r0}
      r == Create(sessions, h0, used0, now, in)
  IN Finish(mode, r, [Call("Create", i.ID, r.err, i, SView(r.heap, r.out), {})
                        EXCEPT !.reuse = i.ID # "" /\ Reuses(i.ID)])

StoreGet(mode, id) ==
  LET r == Get(sessions, heap, Live, now, id)
  IN Finish(mode, r, Call("Get", id, r.err, Nil, SView(r.heap, r.out), {}))

StoreDelete(mode, id) ==
  LET r == Delete(sessions, heap, Live, id)
  IN Finish(mode, r, Call("Delete", id, r.err, Nil, Nil, {}))

\* the parts callers pass to AddPart
PartInputs ==
  {ChunkPart(-1, 1, NoTime), ChunkPart(0, 1, NoTime), ChunkPart(0, 2, NoTime),
   ChunkPart(1, 1, 1)}

StoreAddPart(mode, id, part) ==
  LET r == AddPart(sessions, heap, Live, now, id, part)
  IN Finish(mode, r, Call("AddPart", id, r.err, part, SView(r.heap, r.out), {}))

StoreMarkCompleted(mode, id) ==
  LET r == MarkCompleted(sessions, heap, Live, id)
  IN Finish(mode, r, Call("MarkCompleted", id, r.err, Nil, SView(r.heap, r.out), {}))

StoreMarkAborted(mode, id) ==
  LET r == MarkAborted(sessions, heap, Live, id)
  IN Finish(mode, r, Call("MarkAborted", id, r.err, Nil, SView(r.heap, r.out), {}))

StoreCleanupExpired(mode) ==
  LET c == CleanupExpired(sessions, now)
      r == Ret(c.sessions, heap, Live, OK, Nil)
  IN Finish(mode, r, Call("CleanupExpired", "", OK, Nil, Nil, c.removed))

\* CleanupExpired(t): the caller passes the time to compare with
StoreCleanupExpiredAt(mode, t) ==
  LET c == CleanupExpired(sessions, t)
      r == Ret(c.sessions, heap, Live, OK, Nil)
  IN Finish(mode, r, Call("CleanupExpired", "", OK, t, Nil, c.removed))

\* time passes
Tick ==
  /\ now < MaxTime
  /\ now' = now + 1
  /\ UNCHANGED <<sessions, heap, held, last, thr, fs, hist, mgr, mu, up>>

StoreCalls(mode, ids) ==
  \/ \E i \in CreateInputs(ids) : StoreCreate(mode, i)
  \/ \E id \in ids : StoreGet(mode, id)
  \/ \E id \in ids : StoreDelete(mode, id)
  \/ \E id \in ids, part \in PartInputs : StoreAddPart(mode, id, part)
  \/ \E id \in ids : StoreMarkCompleted(mode, id)
  \/ \E id \in ids : StoreMarkAborted(mode, id)
  \/ StoreCleanupExpired(mode)


\* --------------------------------------------------------------- FSProvider
\* The directory tree under FSProvider.base:
\*   fs.chunks : session id -> (index -> contents) : the .chunks/<id> directories,
\*               a chunk's contents being its payload, or Partial for a file
\*               that was created and not (fully) written;
\*   fs.files  : key -> the sequence of chunk contents the file was built from.
\* An `ok' argument is the outcome of the operating-system call at that place
\* (FALSE: it returned an error).
Partial == 0

FSRet(f, err, part) == [fs |-> f, err |-> err, part |-> part]

NoPart == [Index |-> -1, Size |-> 0, UploadedAt |-> NoTime]

MkdirAll(chunks, id) == IF id \in DOMAIN chunks THEN chunks ELSE MapPut(chunks, id, EmptyMap)

RemoveAll(chunks, id) == [x \in DOMAIN chunks \ {id} |-> chunks[x]]

\* FSProvider.InitiateChunked
FSInitiateChunked(f, session, ok) ==
  IF session = Nil THEN FSRet(f, ErrBackend, NoPart)
  ELSE IF ~ok THEN FSRet(f, ErrBackend, NoPart)
  ELSE FSRet([f EXCEPT !.chunks = MkdirAll(@, session.ID)], OK, NoPart)

\* FSProvider.UploadChunk, up to the os.Stat of the chunk file
FSUploadChunkStat(f, session, index, payload, ok) ==
  IF session = Nil THEN FSRet(f, ErrBackend, NoPart)
  ELSE IF payload = Partial THEN FSRet(f, ErrBackend, NoPart)
  ELSE IF index < 0 THEN FSRet(f, ErrChunkPartOutOfRange, NoPart)
  ELSE IF ~ok THEN FSRet(f, ErrBackend, NoPart)
  ELSE LET f1 == [f EXCEPT !.chunks = MkdirAll(@, session.ID)]
       IN IF index \in DOMAIN f1.chunks[session.ID]
          THEN FSRet(f1, ErrChunkPartDuplicate, NoPart)
          ELSE FSRet(f1, OK, NoPart)

\* FSProvider.UploadChunk, from os.Create of the chunk file to the return;
\* `t' is time.Now()
FSUploadChunkWrite(f, session, index, payload, t, ok) ==
  IF session.ID \notin DOMAIN f.chunks THEN FSRet(f, ErrBackend, NoPart)
  ELSE IF ~ok
       THEN FSRet([f EXCEPT !.chunks[session.ID] = MapPut(@, index, Partial)],
                  ErrBackend, NoPart)
  ELSE FSRet([f EXCEPT !.chunks[session.ID] = MapPut(@, index, payload)],
             OK, ChunkPart(index, payload, t))

\* AWSProvider.InitiateChunked: CreateMultipartUpload opens the upload the
\* session's parts are staged in (f.chunks[ID]: the parts S3 holds for it)
AWSInitiateChunked(f, session, ok) ==
  IF session = Nil THEN FSRet(f, ErrBackend, NoPart)
  ELSE IF ~ok THEN FSRet(f, ErrBackend, NoPart)
  ELSE FSRet([f EXCEPT !.chunks = MapPut(@, session.ID, EmptyMap)], OK, NoPart)

\* AWSProvider.UploadChunk, up to the return of io.ReadAll(payload)
AWSUploadChunkRead(f, session, payload, ok) ==
  IF session = Nil THEN FSRet(f, ErrBackend, NoPart)
  ELSE IF payload = Partial THEN FSRet(f, ErrBackend, NoPart)
  ELSE IF ~ok THEN FSRet(f, ErrBackend, NoPart)
  ELSE FSRet(f, OK, NoPart)

\* AWSProvider.UploadChunk, client.UploadPart and the return: S3 keeps the
\* part last uploaded under a part number; the descriptor's Size stands for
\* the data and its ETag
AWSUploadPart(f, session, index, payload, t, ok) ==
  IF session.ID \notin DOMAIN f.chunks THEN FSRet(f, ErrBackend, NoPart)
  ELSE IF ~ok THEN FSRet(f, ErrBackend, NoPart)
  ELSE FSRet([f EXCEPT !.chunks[session.ID] = MapPut(@, index, payload)],
             OK, ChunkPart(index, payload, t))

\* UploadChunk of a ChunkedUploader that stages the payload under the index
\* idx and reports it under idx
CustomUploadChunk(f, session, idx, payload, t, ok) ==
  IF session.ID \notin DOMAIN f.chunks THEN FSRet(f, ErrBackend, NoPart)
  ELSE IF ~ok THEN FSRet(f, ErrBackend, NoPart)
  ELSE FSRet([f EXCEPT !.chunks[session.ID] = MapPut(@, idx, payload)],
             OK, ChunkPart(idx, payload, t))

\* the elements of S in ascending order
RECURSIVE SortedSeq(_)
SortedSeq(S) == IF S = {} THEN <<>> ELSE <<Min(S)>> \o SortedSeq(S \ {Min(S)})

\* `for idx := range session.UploadedParts': the orders in which the keys of
\* a map can be yielded (Go leaves the iteration order of a map unspecified)
Ranges(S) ==
  {q \in [1..Cardinality(S) -> S] : \A i, j \in DOMAIN q : i # j => q[i] # q[j]}

\* the indexes left in the order the iteration yielded them
SortInts_Skipped(indexes) == indexes

\* sort.Ints(indexes), the indexes being distinct
SortInts(indexes) == SortedSeq({indexes[i] : i \in DOMAIN indexes})

\* the appendChunk loop: the destination after appending the chunks of `order'
\* one by one, stopping at the first chunk file that cannot be opened
RECURSIVE AppendChunks(_, _, _)
AppendChunks(dir, order, dest) ==
  IF order = <<>> THEN [dest |-> dest, err |-> OK]
  ELSE IF Head(order) \notin DOMAIN dir THEN [dest |-> dest, err |-> ErrOpenChunk]
  ELSE AppendChunks(dir, Tail(order), Append(dest, dir[Head(order)]))

\* the assembly without the check for uploaded parts
FSCompleteChunkedAssemble_Empty(f, session, parts, indexes, ok) ==
  IF session = Nil THEN FSRet(f, ErrBackend, NoPart)
  ELSE IF ~ok THEN FSRet(f, ErrBackend, NoPart)
  ELSE LET dir == IF session.ID \in DOMAIN f.chunks THEN f.chunks[session.ID] ELSE EmptyMap
           a == AppendChunks(dir, SortInts(indexes), <<>>)
       IN FSRet([f EXCEPT !.files = MapPut(@, session.Key, a.dest)], a.err, NoPart)

\* FSProvider.CompleteChunked, up to the end of the appendChunk loop; `parts'
\* is what session.UploadedParts holds when it is read and `indexes' its keys
\* in the order the range loop yields them
FSCompleteChunkedAssemble(f, session, parts, indexes, ok) ==
  IF session = Nil THEN FSRet(f, ErrBackend, NoPart)
  ELSE IF Cardinality(DOMAIN parts) = 0 THEN FSRet(f, ErrNoParts, NoPart)
  ELSE IF ~ok THEN FSRet(f, ErrBackend, NoPart)
  ELSE LET dir == IF session.ID \in DOMAIN f.chunks THEN f.chunks[session.ID] ELSE EmptyMap
           a == AppendChunks(dir, SortInts(indexes), <<>>)
       IN FSRet([f EXCEPT !.files = MapPut(@, session.Key, a.dest)], a.err, NoPart)

\* FSProvider.CompleteChunked, the os.RemoveAll of the chunk directory and the
\* return of the file's metadata
FSCompleteChunkedCleanup(f, session, ok) ==
  IF ~ok THEN FSRet(f, ErrBackend, NoPart)
  ELSE FSRet([f EXCEPT !.chunks = RemoveAll(@, session.ID)], OK, NoPart)

\* FSProvider.AbortChunked
FSAbortChunked(f, session, ok) ==
  IF session = Nil THEN FSRet(f, ErrBackend, NoPart)
  ELSE IF ~ok THEN FSRet(f, ErrBackend, NoPart)
  ELSE FSRet([f EXCEPT !.chunks = RemoveAll(@, session.ID)], OK, NoPart)

\* ------------------------------------------------------------------ Manager
\* One Manager (provider: an FSProvider, validated) shared by the threads.  A
\* thread's record is the call it is in: pc is the place in the handler
\* ("done": in no call), op and the arguments, `session' the copy
\* getChunkSession returned, `part' the backend's descriptor.  History kept
\* with the call: berr, the error the backend returned to it; touched, whether
\* it has changed the store; after, whether it began after a CompleteChunked
\* or AbortChunked of the same id had returned success.  When the call
\* returns, `last' is its record with err, the error it returned, until the
\* next step of a thread.
UUIDs == {"s1"}       \* the ids uuid.NewString() can return
TotalSizes == {0, 8}  \* totalSize arguments
\* the successful backend completions of one session that are followed
MaxCompletes == 2
\* the (index, payload) arguments of UploadChunk; Partial is a nil payload
UploadInputs ==
  {[index |-> -1, payload |-> 1], [index |-> 0, payload |-> Partial],
   [index |-> 0, payload |-> 1]}

NoThread ==
  [pc |-> "done", op |-> "none", id |-> "", index |-> -1, payload |-> Partial,
   session |-> Nil, part |-> NoPart, err |-> OK, berr |-> OK,
   touched |-> FALSE, after |-> FALSE, cb |-> "none", assembled |-> {}]

\* a call of `op' begins
Begin(op, id, index, payload) ==
  [NoThread EXCEPT !.pc = "begun", !.op = op, !.id = id, !.index = index,
                   !.payload = payload, !.after = id \in hist.finished]

\* the call returns err
Return(th, err) == [th EXCEPT !.pc = "done", !.err = err]

\* the record of a call that has returned
Returned(th) ==
  [op |-> th.op, id |-> th.id, index |-> th.index, payload |-> th.payload,
   err |-> th.err, berr |-> th.berr, touched |-> th.touched, after |-> th.after,
   cb |-> th.cb, assembled |-> th.assembled]

Idle(t) == thr[t].pc = "done"

\* a step of thread t that leaves the store as r says and the lock with `lock'
Step(t, th, r, lock) ==
  LET changed == View(r.sessions, r.heap) # View(sessions, heap)
      th1 == [th EXCEPT !.touched = @ \/ changed]
  IN /\ Commit(r.sessions, r.heap, held,
               [thr EXCEPT ![t] = IF th1.pc = "done" THEN NoThread ELSE th1])
     /\ last' = IF th1.pc = "done" THEN Returned(th1) ELSE NoCall
     /\ mu' = lock
     /\ UNCHANGED <<now, mgr, up>>

\* a step of thread t that is a call of the store with result r: the call
\* waits for the lock and holds it until it returns
Stored(t, th, r) == mu = Free /\ Step(t, th, r, IF r.locked THEN t ELSE Free)

\* a step of thread t outside the store
Local(t, th) == Step(t, th, Ret(sessions, heap, Live, OK, Nil), mu)

\* The copy of the session a handler works on, reduced to the fields the rest
\* of the handler and the FSProvider read: ID and Key, and for the assembly of
\* CompleteChunked the UploadedParts map; the others are left at their zero
\* values.
Seen(s, withParts) ==
  ChunkSession(s.ID, s.Key, NoTime, NoTime, "",
               IF withParts THEN s.UploadedParts ELSE NilRef, EmptyData)

\* the providers a Manager is given: an FSProvider, a MultiProvider whose
\* object store is an FSProvider, an Uploader without the chunk methods
FSProvider == "FSProvider"
MultiProvider == "MultiProvider"
StubUploader == "stubUploader"
MemoryProvider == "memoryProvider"
AWSProvider == "AWSProvider"
\* some other implementation of the ChunkedUploader interface, free to report
\* a part under another index than the one it was given
CustomUploader == "ChunkedUploader"

\* the indexes the backend's UploadChunk can put in the descriptor it returns
\* for the index it was given
ReportedIndexes(m, index) ==
  IF m.provider = CustomUploader THEN {index, index + 1} ELSE {index}
NoProvider == "nil"

\* the providers that implement ProviderValidator
Validators == {FSProvider, MultiProvider, AWSProvider}

\* Manager.validateProvider: `ok' is the outcome of the provider's Validate,
\* `ran' whether Validate was called
validateProvider(m, ok) ==
  IF m.provider \notin Validators THEN [err |-> OK, ran |-> FALSE]
  ELSE [err |-> IF ok THEN OK ELSE ErrProviderValidation, ran |-> TRUE]

\* the option WithProvider(p) applied to the Manager m
WithProvider(m, p, ok) ==
  LET m1 == [m EXCEPT !.provider = p, !.validated = FALSE, !.providerErr = OK]
      v == validateProvider(m1, ok)
  IN [m |-> IF v.err # OK THEN [m1 EXCEPT !.providerErr = v.err]
            ELSE [m1 EXCEPT !.validated = TRUE],
      err |-> OK, ran |-> v.ran]

\* an ensureProvider that validates the provider on every call
ensureProviderStep_Revalidates(m, ok) ==
  IF m.provider = NoProvider
  THEN [m |-> m, err |-> ErrProviderNotConfigured, ran |-> FALSE]
  ELSE LET v == validateProvider(m, ok)
       IN IF v.err # OK
          THEN [m |-> [m EXCEPT !.providerErr = v.err], err |-> v.err, ran |-> v.ran]
          ELSE [m |-> [m EXCEPT !.validated = TRUE], err |-> OK, ran |-> v.ran]

\* Manager.ensureProvider: the Manager it leaves, the error it returns and
\* whether it called the provider's Validate
ensureProviderStep(m, ok) ==
  IF m.provider = NoProvider
  THEN [m |-> m, err |-> ErrProviderNotConfigured, ran |-> FALSE]
  ELSE IF m.providerErr # OK THEN [m |-> m, err |-> m.providerErr, ran |-> FALSE]
  ELSE IF m.validated THEN [m |-> m, err |-> OK, ran |-> FALSE]
  ELSE LET v == validateProvider(m, ok)
       IN IF v.err # OK
          THEN [m |-> [m EXCEPT !.providerErr = v.err], err |-> v.err, ran |-> v.ran]
          ELSE [m |-> [m EXCEPT !.validated = TRUE], err |-> OK, ran |-> v.ran]

\* Manager.ValidateProvider
ValidateProvider(m, ok) ==
  IF m.provider = NoProvider
  THEN [m |-> m, err |-> ErrProviderNotConfigured, ran |-> FALSE]
  ELSE LET v == validateProvider(m, ok)
       IN IF v.err # OK
          THEN [m |-> [m EXCEPT !.providerErr = v.err, !.validated = FALSE],
                err |-> v.err, ran |-> v.ran]
          ELSE [m |-> [m EXCEPT !.providerErr = OK, !.validated = TRUE],
                err |-> OK, ran |-> v.ran]

\* the error Manager.ensureProvider returns in a Manager whose provider was
\* attached with WithProvider
ensureProvider(m) == ensureProviderStep(m, TRUE).err

\* the type assertion accepting every provider
chunkedProvider_Unchecked(m) == OK

\* Manager.chunkedProvider: the error of the assertion m.provider.(ChunkedUploader)
chunkedProvider(m) ==
  IF m.provider \in {FSProvider, MultiProvider, MemoryProvider, AWSProvider,
                     CustomUploader}
  THEN OK ELSE ErrNotImplemented

\* ensureProvider, then chunkedProvider: the error the entry of a chunk method
\* returns for the provider, OK when it goes on
Provider(m) == IF ensureProvider(m) # OK THEN ensureProvider(m) ELSE chunkedProvider(m)

\* Manager.getChunkSession
getChunkSession(ss, h, used, t, id) ==
  IF id = "" THEN Ret(ss, h, used, ErrChunkSessionNotFound, Nil)
  ELSE Get(ss, h, used, t, id)

\* InitiateChunked registering the session before it calls the backend
InitiateChunked_Backend_StoreFirst(t, key, totalSize, ok) ==
  /\ Idle(t)
  /\ key # ""
  /\ totalSize > 0
  /\ Provider(mgr) = OK
  /\ \E id \in UUIDs \ hist.uuids :
       LET session == ChunkSession(id, key, NoTime, NoTime, "", NilRef, EmptyData)
           b == FSInitiateChunked(fs, session, ok)
           r == Create(sessions, heap, Live, now, session)
           th == [Begin("InitiateChunked", id, -1, Partial) EXCEPT !.berr = b.err]
       IN /\ fs' = b.fs
          /\ hist' = [hist EXCEPT !.uuids = @ \cup {id}]
          /\ Stored(t, Return(th, b.err), r)

\* Manager.InitiateChunked, to the return of the backend's InitiateChunked
InitiateChunked_Backend(t, key, totalSize, ok) ==
  /\ Idle(t)
  /\ IF key = "" THEN
       /\ Local(t, Return(Begin("InitiateChunked", "", -1, Partial), ErrInvalidPath))
       /\ UNCHANGED <<fs, hist>>
     ELSE IF totalSize <= 0 THEN
       /\ Local(t, Return(Begin("InitiateChunked", "", -1, Partial), ErrValidation))
       /\ UNCHANGED <<fs, hist>>
     ELSE IF Provider(mgr) # OK THEN
       /\ Local(t, Return(Begin("InitiateChunked", "", -1, Partial), Provider(mgr)))
       /\ UNCHANGED <<fs, hist>>
     ELSE
       \E id \in UUIDs \ hist.uuids :
         LET session == ChunkSession(id, key, NoTime, NoTime, "", NilRef, EmptyData)
             b == IF mgr.provider \in {AWSProvider, CustomUploader}
                  THEN AWSInitiateChunked(fs, session, ok)
                  ELSE FSInitiateChunked(fs, session, ok)
             th == [Begin("InitiateChunked", id, -1, Partial) EXCEPT
                      !.berr = b.err, !.session = session]
         IN /\ fs' = b.fs
            /\ hist' = [hist EXCEPT !.uuids = @ \cup {id}]
            /\ IF b.err # OK
               THEN Local(t, Return(th, b.err))
               ELSE Local(t, [th EXCEPT !.pc = "initiate_create"])

\* Manager.InitiateChunked, the store's Create and the return
InitiateChunked_Create(t) ==
  /\ thr[t].pc = "initiate_create"
  /\ LET r == Create(sessions, heap, Live, now, thr[t].session)
     IN Stored(t, Return(thr[t], r.err), r)
  /\ UNCHANGED <<fs, hist>>

\* Manager.UploadChunk, to the return of getChunkSession
UploadChunk_Get(t, id, index, payload) ==
  /\ Idle(t)
  /\ LET th == Begin("UploadChunk", id, index, payload)
     IN IF index < 0 THEN Local(t, Return(th, ErrChunkPartOutOfRange))
        ELSE IF payload = Partial THEN Local(t, Return(th, ErrValidation))
        ELSE IF Provider(mgr) # OK THEN Local(t, Return(th, Provider(mgr)))
        ELSE LET r == getChunkSession(sessions, heap, Live, now, id)
             IN IF r.err # OK THEN Stored(t, Return(th, r.err), r)
                ELSE Stored(t, [th EXCEPT !.pc = "upload_stat",
                                             !.session = Seen(r.out, FALSE)], r)
  /\ UNCHANGED <<fs, hist>>

\* Manager.UploadChunk: the backend's UploadChunk, first half
UploadChunk_Stat(t, ok) ==
  /\ thr[t].pc = "upload_stat"
  /\ LET b == IF mgr.provider \in {AWSProvider, CustomUploader}
              THEN AWSUploadChunkRead(fs, thr[t].session, thr[t].payload, ok)
              ELSE FSUploadChunkStat(fs, thr[t].session, thr[t].index,
                                     thr[t].payload, ok)
     IN /\ fs' = b.fs
        /\ IF b.err # OK
           THEN Local(t, Return([thr[t] EXCEPT !.berr = b.err], b.err))
           ELSE Local(t, [thr[t] EXCEPT !.pc = "upload_write"])
  /\ UNCHANGED hist

\* UploadChunk registering the part although the backend's write failed
UploadChunk_Write_Phantom(t, ok) ==
  /\ thr[t].pc = "upload_write"
  /\ LET b == FSUploadChunkWrite(fs, thr[t].session, thr[t].index, thr[t].payload, now, ok)
         r == AddPart(sessions, heap, Live, now, thr[t].id,
                      ChunkPart(thr[t].index, thr[t].payload, now))
     IN /\ fs' = b.fs
        /\ IF b.err # OK
           THEN Stored(t, Return([thr[t] EXCEPT !.berr = b.err], b.err), r)
           ELSE Local(t, [thr[t] EXCEPT !.pc = "upload_addpart", !.part = b.part])
  /\ UNCHANGED hist

\* UploadChunk handing the backend's descriptor to the store as it came
UploadChunk_Write_Unforced(t, ok) ==
  /\ thr[t].pc = "upload_write"
  /\ \E idx \in ReportedIndexes(mgr, thr[t].index) :
       LET b == IF mgr.provider = CustomUploader
                THEN CustomUploadChunk(fs, thr[t].session, idx, thr[t].payload, now, ok)
                ELSE IF mgr.provider = AWSProvider
                THEN AWSUploadPart(fs, thr[t].session, thr[t].index,
                                   thr[t].payload, now, ok)
                ELSE FSUploadChunkWrite(fs, thr[t].session, thr[t].index,
                                        thr[t].payload, now, ok)
       IN /\ fs' = b.fs
          /\ IF b.err # OK
             THEN Local(t, Return([thr[t] EXCEPT !.berr = b.err], b.err))
             ELSE Local(t, [thr[t] EXCEPT !.pc = "upload_addpart", !.part = b.part])
  /\ UNCHANGED hist

\* Manager.UploadChunk: the backend's UploadChunk, second half, and the
\* forcing of part.Index; idx is the index in the descriptor the backend
\* returns
UploadChunk_Write(t, ok) ==
  /\ thr[t].pc = "upload_write"
  /\ \E idx \in ReportedIndexes(mgr, thr[t].index) :
       LET b == IF mgr.provider = CustomUploader
                THEN CustomUploadChunk(fs, thr[t].session, idx, thr[t].payload, now, ok)
                ELSE IF mgr.provider = AWSProvider
                THEN AWSUploadPart(fs, thr[t].session, thr[t].index,
                                   thr[t].payload, now, ok)
                ELSE FSUploadChunkWrite(fs, thr[t].session, thr[t].index,
                                        thr[t].payload, now, ok)
           part == IF b.part.Index # thr[t].index
                   THEN [b.part EXCEPT !.Index = thr[t].index] ELSE b.part
       IN /\ fs' = b.fs
          /\ IF b.err # OK
             THEN Local(t, Return([thr[t] EXCEPT !.berr = b.err], b.err))
             ELSE Local(t, [thr[t] EXCEPT !.pc = "upload_addpart", !.part = part])
  /\ UNCHANGED hist

\* Manager.UploadChunk: the store's AddPart and the return
UploadChunk_AddPart(t) ==
  /\ thr[t].pc = "upload_addpart"
  /\ LET r == AddPart(sessions, heap, Live, now, thr[t].id, thr[t].part)
     IN /\ Stored(t, Return(thr[t], r.err), r)
        /\ hist' = [hist EXCEPT !.acked[thr[t].id] =
                      IF r.err = OK THEN @ \cup {thr[t].index} ELSE @]
  /\ UNCHANGED fs

\* Manager.CompleteChunked, to the return of getChunkSession
CompleteChunked_Get(t, id) ==
  /\ Idle(t)
  /\ hist.completes[id] < MaxCompletes
  /\ LET th == Begin("CompleteChunked", id, -1, Partial)
         r == getChunkSession(sessions, heap, Live, now, id)
     IN IF Provider(mgr) # OK THEN Local(t, Return(th, Provider(mgr)))
        ELSE IF r.err # OK THEN Stored(t, Return(th, r.err), r)
        ELSE Stored(t, [th EXCEPT !.pc = "complete_assemble",
                                  !.session = Seen(r.out, TRUE)], r)
  /\ UNCHANGED <<fs, hist>>

\* Manager.CompleteChunked: the backend's CompleteChunked, first half
CompleteChunked_Assemble(t, ok) ==
  /\ thr[t].pc = "complete_assemble"
  /\ LET parts == MapVal(heap, RefOf(thr[t].session))
     IN \E indexes \in Ranges(DOMAIN parts) :
          LET b == FSCompleteChunkedAssemble(fs, thr[t].session, parts, indexes, ok)
          IN /\ fs' = b.fs
             /\ IF b.err # OK
                THEN Local(t, Return([thr[t] EXCEPT !.berr = b.err], b.err))
                ELSE Local(t, [thr[t] EXCEPT !.pc = "complete_cleanup",
                                             !.session = Seen(@, FALSE),
                                             !.assembled = DOMAIN parts])
  /\ UNCHANGED hist

\* Manager.CompleteChunked: the backend's CompleteChunked, second half
CompleteChunked_Cleanup(t, ok) ==
  /\ thr[t].pc = "complete_cleanup"
  /\ LET b == FSCompleteChunkedCleanup(fs, thr[t].session, ok)
     IN /\ fs' = b.fs
        /\ IF b.err # OK THEN
             /\ Local(t, Return([thr[t] EXCEPT !.berr = b.err], b.err))
             /\ UNCHANGED hist
           ELSE IF mgr.provider = MultiProvider THEN
             /\ Local(t, [thr[t] EXCEPT !.pc = "complete_sync"])
             /\ UNCHANGED hist
           ELSE
             /\ Local(t, [thr[t] EXCEPT !.pc = "complete_mark"])
             /\ hist' = [hist EXCEPT !.completes[thr[t].id] = @ + 1]

\* Manager.CompleteChunked over a MultiProvider: the rest of
\* MultiProvider.CompleteChunked after the object store's CompleteChunked
\* returned: objectStore.GetFile and local.UploadFile, failing (~ok) or not
MultiProvider_Sync(t, ok) ==
  /\ thr[t].pc = "complete_sync"
  /\ LET key == thr[t].session.Key
     IN IF ~ok THEN
          /\ Local(t, Return([thr[t] EXCEPT !.berr = ErrBackend], ErrBackend))
          /\ UNCHANGED <<fs, hist>>
        ELSE
          /\ Local(t, [thr[t] EXCEPT !.pc = "complete_mark"])
          /\ fs' = [fs EXCEPT !.local = MapPut(@, key, fs.files[key])]
          /\ hist' = [hist EXCEPT !.completes[thr[t].id] = @ + 1]

\* Manager.CompleteChunked: the store's MarkCompleted
CompleteChunked_Mark(t) ==
  /\ thr[t].pc = "complete_mark"
  /\ LET r == MarkCompleted(sessions, heap, Live, thr[t].id)
     IN /\ IF r.err # OK
           THEN Stored(t, Return(thr[t], r.err), r)
           ELSE Stored(t, [thr[t] EXCEPT !.pc = "complete_delete"], r)
        /\ hist' = [hist EXCEPT !.marked[thr[t].id] =
                      IF r.err = OK THEN ChunkSessionStateCompleted ELSE @]
  /\ UNCHANGED fs

\* CompleteChunked returning without the Delete
CompleteChunked_Delete_Skipped(t) ==
  /\ thr[t].pc = "complete_delete"
  /\ Local(t, Return(thr[t], OK))
  /\ hist' = [hist EXCEPT !.finished = @ \cup {thr[t].id}]
  /\ UNCHANGED fs

\* Manager.CompleteChunked: the store's Delete and the return
CompleteChunked_Delete(t) ==
  /\ thr[t].pc = "complete_delete"
  /\ LET r == Delete(sessions, heap, Live, thr[t].id)
     IN IF up.callback
        THEN Stored(t, [thr[t] EXCEPT !.pc = "complete_callback"], r)
        ELSE Stored(t, Return(thr[t], OK), r)
  /\ hist' = [hist EXCEPT !.finished = @ \cup {thr[t].id},
                          !.succeeded[thr[t].id] =
                            IF up.callback THEN @ ELSE @ \cup {"CompleteChunked"}]
  /\ UNCHANGED fs

\* FSProvider.DeleteFile
FSDeleteFile(f, key, ok) ==
  IF ~ok \/ key \notin DOMAIN f.files THEN FSRet(f, ErrBackend, NoPart)
  ELSE FSRet([f EXCEPT !.files = [x \in DOMAIN @ \ {key} |-> @[x]]], OK, NoPart)

\* CompleteChunked returning success without handing the callback over
CompleteChunked_Callback_Skipped(t, fails, ok) ==
  /\ thr[t].pc = "complete_callback"
  /\ Local(t, Return(thr[t], OK))
  /\ UNCHANGED <<fs, hist>>

\* Manager.CompleteChunked after the session is completed and deleted: the
\* registered callback is handed to the executor with the file's meta; an
\* error the executor returns fails the call and deletes the artifact in
\* strict mode, and is logged in best-effort mode.  hist.spawned and hist.run
\* count the goroutines started for these callbacks and those that have run.
CompleteChunked_Callback(t, fails, ok) ==
  /\ thr[t].pc = "complete_callback"
  /\ LET async == up.executor = AsyncExecutor
         strict == up.mode = CallbackModeStrict
         err == IF ~async /\ fails /\ strict THEN ErrCallback ELSE OK
         cb == IF async THEN "spawned" ELSE IF fails THEN "failed" ELSE "ok"
     IN /\ Local(t, Return([thr[t] EXCEPT !.cb = cb], err))
        /\ hist' = [hist EXCEPT !.spawned = IF async THEN @ + 1 ELSE @,
                                !.succeeded[thr[t].id] =
                                  IF err = OK THEN @ \cup {"CompleteChunked"} ELSE @]
        /\ fs' = IF err = OK THEN fs
                 ELSE FSDeleteFile(fs, thr[t].session.Key, ok).fs

\* the goroutine AsyncCallbackExecutor.Execute started for a completed
\* upload runs the callback
ChunkCallback_Run(fails) ==
  /\ hist.spawned > hist.run
  /\ hist' = [hist EXCEPT !.run = @ + 1]
  /\ last' = NoCall
  /\ UNCHANGED <<now, sessions, heap, held, thr, fs, mgr, mu, up>>

\* Manager.AbortChunked, to the return of getChunkSession
AbortChunked_Get(t, id) ==
  /\ Idle(t)
  /\ LET th == Begin("AbortChunked", id, -1, Partial)
         r == getChunkSession(sessions, heap, Live, now, id)
     IN IF Provider(mgr) # OK THEN Local(t, Return(th, Provider(mgr)))
        ELSE IF r.err # OK THEN Stored(t, Return(th, r.err), r)
        ELSE Stored(t, [th EXCEPT !.pc = "abort_backend",
                                  !.session = Seen(r.out, FALSE)], r)
  /\ UNCHANGED <<fs, hist>>

\* Manager.AbortChunked: the backend's AbortChunked
AbortChunked_Backend(t, ok) ==
  /\ thr[t].pc = "abort_backend"
  /\ LET b == FSAbortChunked(fs, thr[t].session, ok)
     IN /\ fs' = b.fs
        /\ hist' = [hist EXCEPT !.discarded =
                      IF b.err = OK THEN @ \cup {thr[t].id} ELSE @]
        /\ IF b.err # OK
           THEN Local(t, Return([thr[t] EXCEPT !.berr = b.err], b.err))
           ELSE Local(t, [thr[t] EXCEPT !.pc = "abort_mark"])

\* Manager.AbortChunked: the store's MarkAborted
AbortChunked_Mark(t) ==
  /\ thr[t].pc = "abort_mark"
  /\ LET r == MarkAborted(sessions, heap, Live, thr[t].id)
     IN /\ IF r.err # OK
           THEN Stored(t, Return(thr[t], r.err), r)
           ELSE Stored(t, [thr[t] EXCEPT !.pc = "abort_delete"], r)
        /\ hist' = [hist EXCEPT !.marked[thr[t].id] =
                      IF r.err = OK THEN ChunkSessionStateAborted ELSE @]
  /\ UNCHANGED fs

\* Manager.AbortChunked: the store's Delete and the return
AbortChunked_Delete(t) ==
  /\ thr[t].pc = "abort_delete"
  /\ LET r == Delete(sessions, heap, Live, thr[t].id)
     IN Stored(t, Return(thr[t], OK), r)
  /\ hist' = [hist EXCEPT !.finished = @ \cup {thr[t].id},
                          !.succeeded[thr[t].id] = @ \cup {"AbortChunked"}]
  /\ UNCHANGED fs

\* the periodic sweep: ChunkSessionStore.CleanupExpired(time.Now())
Sweep ==
  /\ ExpiredIDs(sessions, now) # {}
  /\ mu = Free
  /\ mu' = Free
  /\ Commit(CleanupExpired(sessions, now).sessions, heap, held, thr)
  /\ last' = NoCall
  /\ UNCHANGED <<now, fs, hist, mgr, up>>

\* the calls threads `threads' make, with the UploadChunk arguments `uploads'
ManagerCalls(threads, uploads) ==
  \/ \E t \in threads, key \in Keys \cup {""}, n \in TotalSizes, ok \in BOOLEAN :
       InitiateChunked_Backend(t, key, n, ok)
  \/ \E t \in threads : InitiateChunked_Create(t)
  \/ \E t \in threads, id \in UUIDs, u \in uploads :
       UploadChunk_Get(t, id, u.index, u.payload)
  \/ \E t \in threads, ok \in BOOLEAN : UploadChunk_Stat(t, ok)
  \/ \E t \in threads, ok \in BOOLEAN : UploadChunk_Write(t, ok)
  \/ \E t \in threads : UploadChunk_AddPart(t)
  \/ \E t \in threads, id \in UUIDs : CompleteChunked_Get(t, id)
  \/ \E t \in threads, ok \in BOOLEAN : CompleteChunked_Assemble(t, ok)
  \/ \E t \in threads, ok \in BOOLEAN : CompleteChunked_Cleanup(t, ok)
  \/ \E t \in threads : CompleteChunked_Mark(t)
  \/ \E t \in threads : CompleteChunked_Delete(t)
  \/ \E t \in threads, id \in UUIDs : AbortChunked_Get(t, id)
  \/ \E t \in threads, ok \in BOOLEAN : AbortChunked_Backend(t, ok)
  \/ \E t \in threads : AbortChunked_Mark(t)
  \/ \E t \in threads : AbortChunked_Delete(t)

\* ------------------------------------------- concurrent callers of the store
StoreOps ==
  {"Create", "Get", "AddPart", "MarkCompleted", "MarkAborted", "Delete",
   "CleanupExpired"}

\* what the method `op' does and returns once it holds the lock
LockedCall(op, id, index) ==
  IF op = "Create"
  THEN Create(sessions, heap, Live, now,
              ChunkSession(id, "a.bin", NoTime, NoTime, "", NilRef, NilData))
  ELSE IF op = "Get" THEN Get(sessions, heap, Live, now, id)
  ELSE IF op = "AddPart"
  THEN AddPart(sessions, heap, Live, now, id, ChunkPart(index, 1, NoTime))
  ELSE IF op = "MarkCompleted" THEN MarkCompleted(sessions, heap, Live, id)
  ELSE IF op = "MarkAborted" THEN MarkAborted(sessions, heap, Live, id)
  ELSE IF op = "Delete" THEN Delete(sessions, heap, Live, id)
  ELSE Ret(CleanupExpired(sessions, now).sessions, heap, Live, OK, Nil)

\* a caller starts a store method: AddPart returns for a negative index
\* before it asks for the lock, every other call goes on to s.mu.Lock() /
\* RLock() (taken as exclusive for Get too)
Store_Begin(t, op, id, index) ==
  /\ Idle(t)
  /\ LET th == Begin(op, id, index, Partial)
     IN IF op = "AddPart" /\ index < 0
        THEN Local(t, Return(th, ErrChunkPartOutOfRange))
        ELSE Local(t, [th EXCEPT !.pc = "store_wait"])
  /\ UNCHANGED <<fs, hist>>

\* s.mu.Lock() returns: the caller holds the lock
Store_Lock(t) ==
  /\ thr[t].pc = "store_wait"
  /\ mu = Free
  /\ mu' = t
  /\ thr' = [thr EXCEPT ![t].pc = "store_locked"]
  /\ last' = NoCall
  /\ UNCHANGED <<now, sessions, heap, held, fs, hist, mgr, up>>

\* the body of the method and its return, the deferred Unlock included
Store_Unlock(t) ==
  /\ thr[t].pc = "store_locked"
  /\ mu = t
  /\ LET r == LockedCall(thr[t].op, thr[t].id, thr[t].index)
         keep == {RefOf(r.sessions[id]) : id \in IDs}
     IN /\ sessions' = r.sessions
        /\ heap' = [k \in Refs |-> IF k \in keep THEN r.heap[k] ELSE EmptyMap]
        /\ mu' = IF r.locked THEN t ELSE Free
  /\ thr' = [thr EXCEPT ![t] = NoThread]
  /\ last' = NoCall
  /\ UNCHANGED <<now, held, fs, hist, mgr, up>>

\* ------------------------------------------------- post-upload callbacks

MaxUploads == 3                  \* HandleFile calls in a run

\* the names validator.RandomName gives the uploads: the n-th call's is n
Names == 1..MaxUploads

\* `up' before any upload:
\*   callback, mode, executor : what WithOnUploadComplete, WithCallbackMode and
\*                              WithCallbackExecutor configured;
\*   pc, name, calls          : the HandleFile call in progress, the calls begun;
\*   files, deleted           : memoryProvider.files (its keys), .deleted;
\*   invoked, failed          : per name, the callback's runs; the names whose
\*                              callback returned an error;
\*   pending, logged          : the goroutines started and not yet run; the
\*                              names whose callback error was logged;
\*   result                   : per name, what HandleFile returned;
\*   crashed                  : the process was ended by a panic nothing recovered
NoUploads(callback, mode, executor) ==
  [callback |-> callback, mode |-> mode, executor |-> executor,
   pc |-> "idle", name |-> 0, calls |-> 0, files |-> {}, deleted |-> {},
   invoked |-> [n \in Names |-> 0], failed |-> {}, pending |-> {},
   logged |-> {}, result |-> [n \in Names |-> "none"], crashed |-> FALSE]

\* memoryProvider.UploadFile
MemUploadFile(u, path) == [u EXCEPT !.files = @ \cup {path}]

\* memoryProvider.DeleteFile
MemDeleteFile(u, path) ==
  [u EXCEPT !.files = @ \ {path}, !.deleted = @ \cup {path}]

\* the callback cb runs for `name' and returns an error iff `fails'
RunCallback(u, name, fails) ==
  [u EXCEPT !.invoked[name] = @ + 1,
            !.failed = IF fails THEN @ \cup {name} ELSE @]

\* syncCallbackExecutor.Execute: return cb(ctx, meta)
SyncExecute(u, name, fails) ==
  [up |-> RunCallback(u, name, fails), err |-> IF fails THEN ErrCallback ELSE OK]

\* an Execute that runs the callback inline and returns its error
AsyncExecute_Awaits(u, name, fails) ==
  [up |-> RunCallback(u, name, fails), err |-> IF fails THEN ErrCallback ELSE OK]

\* AsyncCallbackExecutor.Execute: go func() { cb(ctx, meta) ... }(); return nil
AsyncExecute(u, name, fails) ==
  [up |-> [u EXCEPT !.pending = @ \cup {name}], err |-> OK]

\* Manager.HandleFile to the return of m.UploadFile: `valid' is the outcome of
\* the validator's checks
HandleFile_Upload(valid) ==
  /\ ~up.crashed
  /\ up.pc = "idle"
  /\ up.calls < MaxUploads
  /\ LET name == up.calls + 1
         u == [up EXCEPT !.calls = name, !.name = name]
     IN up' = IF ~valid THEN [u EXCEPT !.result[name] = ErrValidation]
              ELSE IF ensureProvider(mgr) # OK
                   THEN [u EXCEPT !.result[name] = ensureProvider(mgr)]
              ELSE [MemUploadFile(u, name) EXCEPT !.pc = "stored"]
  /\ UNCHANGED <<now, sessions, heap, held, last, thr, fs, hist, mgr, mu>>

\* HandleFile without the compensation of the strict mode
HandleFile_Callback_Keeps(fails) ==
  /\ ~up.crashed
  /\ up.pc = "stored"
  /\ LET e == IF ~up.callback THEN [up |-> up, err |-> OK]
              ELSE IF up.executor = AsyncExecutor
                   THEN AsyncExecute(up, up.name, fails)
                   ELSE SyncExecute(up, up.name, fails)
     IN up' = [e.up EXCEPT !.pc = "idle", !.result[up.name] = e.err]
  /\ UNCHANGED <<now, sessions, heap, held, last, thr, fs, hist, mgr, mu>>

\* HandleFile failing the call on a callback error whatever the mode
HandleFile_Callback_AlwaysStrict(fails) ==
  /\ ~up.crashed
  /\ up.pc = "stored"
  /\ LET e == IF ~up.callback THEN [up |-> up, err |-> OK]
              ELSE IF up.executor = AsyncExecutor
                   THEN AsyncExecute(up, up.name, fails)
                   ELSE SyncExecute(up, up.name, fails)
         u1 == IF e.err = OK THEN e.up ELSE MemDeleteFile(e.up, up.name)
     IN up' = [u1 EXCEPT !.pc = "idle", !.result[up.name] = e.err]
  /\ UNCHANGED <<now, sessions, heap, held, last, thr, fs, hist, mgr, mu>>

\* Manager.HandleFile after the object is stored: the callback, if one is
\* configured, is handed to the executor; an error the executor returns fails
\* the call and deletes the object in strict mode, and is logged in
\* best-effort mode
HandleFile_Callback(fails) ==
  /\ ~up.crashed
  /\ up.pc = "stored"
  /\ LET e == IF ~up.callback THEN [up |-> up, err |-> OK]
              ELSE IF up.executor = AsyncExecutor
                   THEN AsyncExecute(up, up.name, fails)
                   ELSE SyncExecute(up, up.name, fails)
         strict == up.mode = CallbackModeStrict
         u1 == IF e.err = OK THEN e.up
               ELSE IF strict THEN MemDeleteFile(e.up, up.name)
               ELSE [e.up EXCEPT !.logged = @ \cup {up.name}]
     IN up' = [u1 EXCEPT !.pc = "idle",
                         !.result[up.name] = IF strict THEN e.err ELSE OK]
  /\ UNCHANGED <<now, sessions, heap, held, last, thr, fs, hist, mgr, mu>>

\* the goroutine AsyncCallbackExecutor.Execute started runs the callback and
\* logs its error
AsyncCallback_Run(name, fails) ==
  /\ ~up.crashed
  /\ name \in up.pending
  /\ LET u == RunCallback(up, name, fails)
     IN up' = [u EXCEPT !.pending = @ \ {name},
                        !.logged = IF fails THEN @ \cup {name} ELSE @]
  /\ UNCHANGED <<now, sessions, heap, held, last, thr, fs, hist, mgr, mu>>

\* the goroutine AsyncCallbackExecutor.Execute started runs a callback that
\* panics: the goroutine has no recover, so the Go runtime ends the process
AsyncCallback_Panic(name) ==
  /\ ~up.crashed
  /\ name \in up.pending
  /\ up' = [up EXCEPT !.pending = @ \ {name}, !.invoked[name] = @ + 1,
                      !.crashed = TRUE]
  /\ UNCHANGED <<now, sessions, heap, held, last, thr, fs, hist, mgr, mu>>

\* ------------------------------------------------- the provider's validation
\* The operations of the Manager that begin with ensureProvider, each taken to
\* the return of ensureProvider: `valid' says that the arguments pass the
\* checks the operation makes before it, and the operation goes on to the
\* backend exactly when ensureProvider returns nil.
ManagerOps ==
  {"UploadFile", "GetFile", "DeleteFile", "GetPresignedURL", "InitiateChunked",
   "UploadChunk", "CompleteChunked", "AbortChunked", "CreatePresignedPost",
   "ConfirmPresignedUpload", "HandleFile"}

\* the operations that check their arguments before ensureProvider
ArgChecked ==
  {"InitiateChunked", "UploadChunk", "CreatePresignedPost",
   "ConfirmPresignedUpload", "HandleFile"}

\* the providers attached: none, two with Validate, one without
Providers == {NoProvider, FSProvider, MultiProvider, StubUploader}

\* the record of a call about the provider: the Manager before it, whether
\* Validate ran and whether the call went on to the backend
ProviderCall(op, r, valid) ==
  [NoCall EXCEPT !.op = op, !.err = r.err,
                 !.arg = [pre |-> mgr, ran |-> r.ran, valid |-> valid,
                          backend |-> valid /\ r.err = OK]]

Manager_WithProvider(p, ok) ==
  /\ mgr' = WithProvider(mgr, p, ok).m
  /\ last' = ProviderCall("WithProvider", WithProvider(mgr, p, ok), TRUE)
  /\ UNCHANGED <<now, sessions, heap, held, thr, fs, hist, mu, up>>

Manager_ValidateProvider(ok) ==
  /\ mgr' = ValidateProvider(mgr, ok).m
  /\ last' = ProviderCall("ValidateProvider", ValidateProvider(mgr, ok), TRUE)
  /\ UNCHANGED <<now, sessions, heap, held, thr, fs, hist, mu, up>>

Manager_Operation(op, valid, ok) ==
  /\ ~valid => op \in ArgChecked
  /\ LET r == IF valid THEN ensureProviderStep(mgr, ok)
              ELSE [m |-> mgr, err |-> ErrValidation, ran |-> FALSE]
     IN /\ mgr' = r.m
        /\ last' = ProviderCall(op, r, valid)
  /\ UNCHANGED <<now, sessions, heap, held, thr, fs, hist, mu, up>>

\* ------------------------------------------------------------ initial state
\* NewManager(WithProvider(provider)) / NewChunkSessionStore / fresh provider
\* directories
InitWith(provider, uploads) ==
  /\ now = 1
  /\ sessions = [id \in IDs |-> Nil]
  /\ heap = [r \in Refs |-> EmptyMap]
  /\ held = Nil
  /\ last = NoCall
  /\ thr = [t \in Threads |-> NoThread]
  /\ fs = [chunks |-> EmptyMap, files |-> EmptyMap, local |-> EmptyMap]
  /\ hist = [uuids |-> {}, finished |-> {}, completes |-> [id \in IDs |-> 0],
             marked |-> [id \in IDs |-> ""], spawned |-> 0, run |-> 0,
             acked |-> [id \in IDs |-> {}], discarded |-> {},
             succeeded |-> [id \in IDs |-> {}]]
  /\ mgr = [provider |-> provider, providerErr |-> OK,
            validated |-> provider # NoProvider]
  /\ mu = Free
  /\ up = uploads

\* a Manager without a callback
InitProvider(provider) ==
  InitWith(provider, NoUploads(FALSE, CallbackModeBestEffort, SyncExecutor))

Init == InitProvider(FSProvider)

\* NewManager() and the options and operations that concern its provider
NextProvider ==
  \/ \E p \in Providers, ok \in BOOLEAN : Manager_WithProvider(p, ok)
  \/ \E ok \in BOOLEAN : Manager_ValidateProvider(ok)
  \/ \E op \in ManagerOps, valid, ok \in BOOLEAN : Manager_Operation(op, valid, ok)

SpecProvider == InitProvider(NoProvider) /\ [][NextProvider]_vars

\* the store under direct calls, each recorded in `last'
NextStore == Tick \/ StoreCalls("store", {"s1"})

SpecStore == Init /\ [][NextStore]_vars

\* the store under direct calls, the caller keeping copies it was handed
NextAlias == Tick \/ StoreCalls("alias", {"s1"})

SpecAlias == Init /\ [][NextAlias]_vars

\* the store holding two sessions, swept with any time the caller passes
NextClean ==
  \/ Tick
  \/ \E i \in CreateInputs(IDs) : StoreCreate("store", i)
  \/ \E id \in IDs : StoreMarkCompleted("store", id)
  \/ \E id \in IDs : StoreMarkAborted("store", id)
  \/ \E t \in 0..MaxTime : StoreCleanupExpiredAt("store", t)

SpecClean == Init /\ [][NextClean]_vars

\* a Manager over a backend without the chunked capability, sharing its
\* session store (WithChunkSessionStore) with direct callers
NextStub ==
  \/ Tick
  \/ StoreCalls("store", UUIDs)
  \/ \E key \in Keys \cup {""}, n \in TotalSizes, ok \in BOOLEAN :
       InitiateChunked_Backend("t1", key, n, ok)
  \/ \E id \in UUIDs, u \in UploadInputs : UploadChunk_Get("t1", id, u.index, u.payload)
  \/ \E id \in UUIDs : CompleteChunked_Get("t1", id)
  \/ \E id \in UUIDs : AbortChunked_Get("t1", id)

SpecStub == InitProvider(StubUploader) /\ [][NextStub]_vars

\* HandleFile calls of a Manager over a memoryProvider, with every
\* configuration of callback, mode and executor
InitCallback ==
  \E callback \in BOOLEAN, mode \in {CallbackModeStrict, CallbackModeBestEffort},
     executor \in {SyncExecutor, AsyncExecutor} :
    InitWith(MemoryProvider, NoUploads(callback, mode, executor))

NextCallback ==
  \/ \E valid \in BOOLEAN : HandleFile_Upload(valid)
  \/ \E fails \in BOOLEAN : HandleFile_Callback(fails)
  \/ \E name \in Names, fails \in BOOLEAN : AsyncCallback_Run(name, fails)

SpecCallback == InitCallback /\ [][NextCallback]_vars

\* the Go scheduler runs every goroutine that was started
SpecCallbackFair ==
  SpecCallback /\ \A name \in Names :
                    WF_vars(\E fails \in BOOLEAN : AsyncCallback_Run(name, fails))

\* the same calls with callbacks that may also panic
NextPanic ==
  \/ \E valid \in BOOLEAN : HandleFile_Upload(valid)
  \/ \E fails \in BOOLEAN : HandleFile_Callback(fails)
  \/ \E name \in Names, fails \in BOOLEAN : AsyncCallback_Run(name, fails)
  \/ \E name \in Names : AsyncCallback_Panic(name)

SpecPanic == InitCallback /\ [][NextPanic]_vars

\* one caller of a Manager over an FSProvider with a callback registered (or
\* none), in every mode and with either executor
InitComplete ==
  \E callback \in BOOLEAN, mode \in {CallbackModeStrict, CallbackModeBestEffort},
     executor \in {SyncExecutor, AsyncExecutor} :
    InitWith(FSProvider, NoUploads(callback, mode, executor))

NextComplete ==
  \/ Tick
  \/ ManagerCalls({"t1"}, UploadInputs)
  \/ \E fails \in BOOLEAN, ok \in BOOLEAN : CompleteChunked_Callback("t1", fails, ok)
  \/ \E fails \in BOOLEAN : ChunkCallback_Run(fails)

\* the Go scheduler runs every goroutine that was started
SpecComplete ==
  InitComplete /\ [][NextComplete]_vars
    /\ WF_vars(\E fails \in BOOLEAN : ChunkCallback_Run(fails))

\* the store holding two sessions, with parts, under Delete
NextDelete ==
  \/ \E i \in CreateInputs(IDs) : StoreCreate("store", i)
  \/ \E id \in IDs, part \in PartInputs : StoreAddPart("store", id, part)
  \/ \E id \in IDs : StoreDelete("store", id)

SpecDelete == Init /\ [][NextDelete]_vars

\* two callers of the store's methods, each waiting for the lock
NextLock ==
  \/ \E t \in Threads, op \in StoreOps, id \in UUIDs, index \in {-1, 0} :
       Store_Begin(t, op, id, index)
  \/ \E t \in Threads : Store_Lock(t)
  \/ \E t \in Threads : Store_Unlock(t)

\* sync.Mutex hands the lock to a caller that has waited (starvation mode),
\* and a caller that holds the lock runs on to its return
SpecLock ==
  Init /\ [][NextLock]_vars
    /\ \A t \in Threads : SF_vars(Store_Lock(t)) /\ WF_vars(Store_Unlock(t))

\* concurrent Manager calls over an FSProvider, the clock and the sweep
NextManager == Tick \/ Sweep \/ ManagerCalls(Threads, UploadInputs)

SpecManager == Init /\ [][NextManager]_vars

\* two callers uploading two parts of a session and completing it
AckInputs == {[index |-> 0, payload |-> 1], [index |-> 1, payload |-> 2]}

NextAck == ManagerCalls(Threads, AckInputs)

SpecAck == Init /\ [][NextAck]_vars

\* one caller uploading a part twice, with different data, to an AWSProvider
AWSInputs == {[index |-> 0, payload |-> 1], [index |-> 0, payload |-> 2]}

\* InitiateChunked and UploadChunk called by thread t
UploadCalls(t, uploads) ==
  \/ \E key \in Keys \cup {""}, n \in TotalSizes, ok \in BOOLEAN :
       InitiateChunked_Backend(t, key, n, ok)
  \/ InitiateChunked_Create(t)
  \/ \E id \in UUIDs, u \in uploads : UploadChunk_Get(t, id, u.index, u.payload)
  \/ \E ok \in BOOLEAN : UploadChunk_Stat(t, ok)
  \/ \E ok \in BOOLEAN : UploadChunk_Write(t, ok)
  \/ UploadChunk_AddPart(t)

NextAWS == Tick \/ UploadCalls("t1", AWSInputs)

SpecAWS == InitProvider(AWSProvider) /\ [][NextAWS]_vars

\* one caller uploading two parts to a backend that may report another index
CustomInputs == {[index |-> 0, payload |-> 1], [index |-> 1, payload |-> 2]}

NextCustom == Tick \/ UploadCalls("t1", CustomInputs)

SpecCustom == InitProvider(CustomUploader) /\ [][NextCustom]_vars

\* one caller uploading the parts of a session in any order and completing
OrderInputs ==
  {[index |-> 0, payload |-> 1], [index |-> 1, payload |-> 2],
   [index |-> 2, payload |-> 3]}

NextOrder == Tick \/ ManagerCalls({"t1"}, OrderInputs)

SpecOrder == Init /\ [][NextOrder]_vars

\* one caller of a Manager over a MultiProvider
NextMulti ==
  \/ Tick
  \/ ManagerCalls({"t1"}, UploadInputs)
  \/ \E ok \in BOOLEAN : MultiProvider_Sync("t1", ok)

SpecMulti == InitProvider(MultiProvider) /\ [][NextMulti]_vars

\* ================================================================== claims
\* the session the last direct call named, before and after the call
Pre == IF last.id \in IDs THEN last.pre[last.id] ELSE Nil
Post == IF last.id \in IDs THEN SView(heap, sessions[last.id]) ELSE Nil

Closed(st) == st \in {ChunkSessionStateCompleted, ChunkSessionStateAborted}

\* C1: under any sequence of store operations the state of a stored entry
\* changes only active -> completed or active -> aborted; a completed or
\* aborted entry keeps its state for as long as it stays in the store.
C1_StateTransitions ==
  [][\A id \in IDs :
       (sessions[id] # Nil /\ sessions'[id] # Nil
          /\ sessions'[id].State # sessions[id].State)
       => (sessions[id].State = ChunkSessionStateActive
             /\ Closed(sessions'[id].State))]_vars

\* a MarkAborted has just moved an active session to aborted
C1_Witness ==
  /\ last.op = "MarkAborted" /\ last.err = OK
  /\ Pre.State = ChunkSessionStateActive
  /\ Post.State = ChunkSessionStateAborted

\* C2 as stated: an AddPart for an index that already has a part fails with
\* PartDuplicate and leaves the recorded part as it was.
C2_Original ==
  (last.op = "AddPart" /\ Pre # Nil /\ last.arg.Index \in DOMAIN Pre.Parts)
  => (last.err = ErrChunkPartDuplicate /\ Post = Pre)

\* C2 amended: an AddPart for an index that already has a part never succeeds
\* (so at most one AddPart per index succeeds): it fails with PartDuplicate
\* while the session is active and unexpired, with SessionClosed once it is
\* completed or aborted and with SessionNotFound once it has expired; and no
\* store call ever changes a part a present session already records.
C2_FirstWins ==
  /\ (last.op = "AddPart" /\ Pre # Nil /\ last.arg.Index \in DOMAIN Pre.Parts)
     => /\ last.err \in {ErrChunkPartDuplicate, ErrChunkSessionClosed,
                         ErrChunkSessionNotFound}
        /\ (Pre.State = ChunkSessionStateActive /\ ~(last.t > Pre.ExpiresAt))
           <=> last.err = ErrChunkPartDuplicate
        /\ (Pre.State # ChunkSessionStateActive /\ ~(last.t > Pre.ExpiresAt))
           <=> last.err = ErrChunkSessionClosed
        /\ (last.t > Pre.ExpiresAt) <=> last.err = ErrChunkSessionNotFound
  /\ (last.op # "none" /\ Pre # Nil /\ Post # Nil)
     => \A i \in DOMAIN Pre.Parts :
          i \in DOMAIN Post.Parts /\ Post.Parts[i] = Pre.Parts[i]

\* a second AddPart for index 0, with another size, was rejected as a duplicate
\* and the first part is still the recorded one
C2_Witness ==
  /\ last.op = "AddPart" /\ last.err = ErrChunkPartDuplicate
  /\ last.arg.Index = 0 /\ last.arg.Size = 2
  /\ Post.Parts[0].Size = 1

\* C6 as stated: Get and AddPart on a session past its expiresAt report
\* not-found whatever its state, and the store no longer holds it afterwards.
C6_Original ==
  (last.op \in {"Get", "AddPart"} /\ Pre # Nil /\ last.t > Pre.ExpiresAt)
  => (last.err = ErrChunkSessionNotFound /\ Post = Nil)

\* C6 amended: on a session past its expiresAt, whatever its state, Get
\* returns found=false and leaves the entry in the store, and AddPart with a
\* non-negative index fails with SessionNotFound and removes the entry (with a
\* negative index it fails with PartOutOfRange and removes nothing).
C6_Expired ==
  (Pre # Nil /\ last.t > Pre.ExpiresAt)
  => /\ last.op = "Get"
        => (last.err = ErrChunkSessionNotFound /\ last.out = Nil /\ Post = Pre)
     /\ (last.op = "AddPart" /\ last.arg.Index >= 0)
        => (last.err = ErrChunkSessionNotFound /\ Post = Nil)
     /\ (last.op = "AddPart" /\ last.arg.Index < 0)
        => (last.err = ErrChunkPartOutOfRange /\ Post = Pre)

\* AddPart has just purged an expired session that was recorded completed
C6_Witness ==
  /\ last.op = "AddPart" /\ Pre # Nil /\ last.t > Pre.ExpiresAt
  /\ Pre.State = ChunkSessionStateCompleted
  /\ last.err = ErrChunkSessionNotFound /\ Post = Nil

\* C7 as stated: a session copy the store handed out shares no UploadedParts
\* map with the stored record, so that no later store operation changes it.
C7_NoAlias ==
  held # Nil => MapVal(heap, RefOf(held.s)) = held.parts0

\* C8: from any state with an active, unexpired session, two AddPart calls for
\* two different non-negative indices that are not recorded yet both succeed,
\* in either order (the lock serialises them), and the session then records
\* both parts and still every part it recorded before.
C8_BothPartsKept ==
  \A id \in IDs, p \in PartInputs, q \in PartInputs, t2 \in now..MaxTime :
    LET s == sessions[id]
        r1 == AddPart(sessions, heap, Live, now, id, p)
        r2 == AddPart(r1.sessions, r1.heap, r1.used, t2, id, q)
        before == MapVal(heap, RefOf(s))
        after == MapVal(r2.heap, RefOf(r2.sessions[id]))
    IN (/\ s # Nil /\ s.State = ChunkSessionStateActive /\ ~(t2 > s.ExpiresAt)
        /\ p.Index >= 0 /\ q.Index >= 0 /\ p.Index # q.Index
        /\ {p.Index, q.Index} \cap DOMAIN before = {})
       => /\ r1.err = OK /\ r2.err = OK
          /\ DOMAIN after = DOMAIN before \cup {p.Index, q.Index}
          /\ after[p.Index].Size = p.Size /\ after[q.Index].Size = q.Size
          /\ \A i \in DOMAIN before : after[i] = before[i]
          /\ DOMAIN SView(r2.heap, r2.out).Parts = DOMAIN after

\* two AddPart calls in a row have filled indices 0 and 1 of a session
C8_Witness ==
  /\ last.op = "AddPart" /\ last.err = OK
  /\ Pre # Nil /\ Cardinality(DOMAIN Pre.Parts) = 1
  /\ DOMAIN Post.Parts = {0, 1}
  /\ Post.State = ChunkSessionStateActive

\* C9 as stated: AddPart, MarkCompleted and MarkAborted on a present session
\* that is not active fail with SessionClosed and leave it unchanged.
C9_Original ==
  (last.op \in {"AddPart", "MarkCompleted", "MarkAborted"}
     /\ Pre # Nil /\ Pre.State # ChunkSessionStateActive)
  => (last.err = ErrChunkSessionClosed /\ Post = Pre)

\* C9 amended: on a present session that is not active, MarkCompleted and
\* MarkAborted always fail with SessionClosed, and so does AddPart when its
\* part index is non-negative and the session has not expired; each leaves
\* the session's state and uploadedParts unchanged.
C9_Closed ==
  (Pre # Nil /\ Pre.State # ChunkSessionStateActive)
  => /\ last.op \in {"MarkCompleted", "MarkAborted"}
        => (last.err = ErrChunkSessionClosed /\ Post = Pre)
     /\ (last.op = "AddPart" /\ last.arg.Index >= 0 /\ ~(last.t > Pre.ExpiresAt))
        => (last.err = ErrChunkSessionClosed /\ Post = Pre)

\* MarkAborted has just been refused on a completed session
C9_Witness ==
  /\ last.op = "MarkAborted" /\ last.err = ErrChunkSessionClosed
  /\ Pre # Nil /\ Pre.State = ChunkSessionStateCompleted /\ Post = Pre

\* ------------------------------------------------- claims about the Manager
ChunkOps == {"UploadChunk", "CompleteChunked", "AbortChunked"}

\* a Manager call returned in the step that led here
Returning == last.op \in ChunkOps \cup {"InitiateChunked"}

\* C3: for every session, whatever the interleaving of concurrent or repeated
\* Manager.CompleteChunked calls, the backend's CompleteChunked is carried out
\* successfully at most once.
C3_AssembledOnce == \A id \in UUIDs : hist.completes[id] <= 1

\* C4: when the backend's UploadChunk, CompleteChunked or AbortChunked returns
\* an error, the Manager call returns that very error and has changed nothing
\* in the session store: no part registered, no state changed, no session
\* removed.
C4_BackendFailureNoOp ==
  (Returning /\ last.op \in ChunkOps /\ last.berr # OK)
    => (last.err = last.berr /\ ~last.touched)

C4_Witness ==
  /\ Returning
  /\ last.op = "UploadChunk"
  /\ last.berr = ErrBackend
  /\ sessions[last.id] # Nil
  /\ sessions[last.id].State = ChunkSessionStateActive
  /\ MapLen(heap, RefOf(sessions[last.id])) = 0
  /\ last.index \in DOMAIN fs.chunks[last.id]

\* the error a chunk call on a session id without a record returns
Rejected(c) ==
  IF c.op = "UploadChunk" /\ c.index < 0 THEN ErrChunkPartOutOfRange
  ELSE IF c.op = "UploadChunk" /\ c.payload = Partial THEN ErrValidation
  ELSE ErrChunkSessionNotFound

\* C5 as stated: once CompleteChunked or AbortChunked has returned success for
\* an id, every later UploadChunk, CompleteChunked or AbortChunked with that id
\* returns SessionNotFound.
C5_Original ==
  (Returning /\ last.op \in ChunkOps /\ last.after)
    => last.err = ErrChunkSessionNotFound

\* C5: when CompleteChunked (AbortChunked) returns success for an id, the
\* entry was moved to completed (aborted) and is deleted, and stays deleted;
\* every later CompleteChunked or AbortChunked with that id, and every later
\* UploadChunk with a non-negative index and a payload, returns
\* SessionNotFound; an UploadChunk with a negative index returns OutOfRange and
\* one without a payload a validation error, the id not being looked up.
C5_Deleted ==
  /\ \A id \in hist.finished :
       /\ sessions[id] = Nil
       /\ hist.marked[id] \in {ChunkSessionStateCompleted, ChunkSessionStateAborted}
  /\ (Returning /\ last.op = "CompleteChunked" /\ last.err = OK)
       => (last.id \in hist.finished /\ hist.marked[last.id] = ChunkSessionStateCompleted)
  /\ (Returning /\ last.op = "AbortChunked" /\ last.err = OK)
       => (last.id \in hist.finished /\ hist.marked[last.id] = ChunkSessionStateAborted)
  /\ (Returning /\ last.op \in ChunkOps /\ last.after)
       => (last.err = Rejected(last) /\ ~last.touched /\ last.berr = OK)

C5_Witness ==
  /\ Returning
  /\ last.after
  /\ last.op = "UploadChunk"
  /\ last.index >= 0
  /\ last.payload # Partial
  /\ last.err = ErrChunkSessionNotFound
  /\ hist.marked[last.id] = ChunkSessionStateCompleted

\* C10: in Manager.InitiateChunked the backend's InitiateChunked comes before
\* the store's Create: if the backend fails, the call returns the backend's
\* error, has changed nothing in the store, and the store has no record of
\* the new session.
C10_BackendFirst ==
  /\ (Returning /\ last.op = "InitiateChunked" /\ last.berr # OK)
       => (last.err = last.berr /\ ~last.touched /\ sessions[last.id] = Nil)
  /\ \A t \in Threads :
       thr[t].pc = "initiate_create"
         => (thr[t].berr = OK /\ sessions[thr[t].id] = Nil
             /\ thr[t].id \in DOMAIN fs.chunks)

C10_Witness ==
  /\ Returning
  /\ last.op = "InitiateChunked"
  /\ last.berr = ErrBackend
  /\ last.id \in UUIDs
  /\ \A id \in IDs : sessions[id] = Nil

\* `file' is the contents of the chunks `idxs' of `dir', each at the place of
\* its index's rank among idxs
Ascending(dir, idxs, file) ==
  /\ Len(file) = Cardinality(idxs)
  /\ \A i \in idxs : file[1 + Cardinality({j \in idxs : j < i})] = dir[i]

\* C11: whatever the order in which the parts were uploaded and in which the
\* session's part map is traversed, a successful assembly writes the parts in
\* ascending order of their indexes, so the artifact depends only on the set
\* of parts.
C11_AscendingOrder ==
  [][\A t \in Threads :
       (thr[t].pc = "complete_assemble" /\ thr'[t].pc = "complete_cleanup")
         => Ascending(fs.chunks[thr[t].id],
                      DOMAIN MapVal(heap, RefOf(thr[t].session)),
                      fs'.files[thr[t].session.Key])]_vars

\* assembled in the order 0,1,2 after index 2 arrived before index 0
C11_Witness ==
  /\ thr["t1"].pc = "complete_cleanup"
  /\ sessions[thr["t1"].id] # Nil
  /\ LET parts == MapVal(heap, RefOf(sessions[thr["t1"].id]))
     IN /\ DOMAIN parts = {0, 1, 2}
        /\ parts[2].UploadedAt < parts[0].UploadedAt
        /\ fs.files[thr["t1"].session.Key] = <<1, 2, 3>>

\* C12: no backend error leaves a session stuck.  A call of CompleteChunked
\* that finds the session stored (active, unexpired), with a part registered,
\* and during which no I/O fails, succeeds: whatever failed before, the retry
\* goes through.
C12_RetrySucceeds ==
  (Returning /\ last.op = "CompleteChunked"
     /\ last.err \notin {ErrChunkSessionNotFound, ErrNoParts, ErrBackend})
    => last.err = OK

\* the places of the handlers at which the next step is an I/O of the backend
BackendPCs ==
  {"upload_stat", "upload_write", "complete_assemble", "complete_cleanup",
   "complete_sync", "abort_backend"}

\* C13: no thread performs backend I/O while it holds the store's lock: the
\* lock is held only inside the store's methods, so it is free whenever a
\* thread is about to call the backend, and every step that changes the
\* backend's files starts and ends with the lock free.
C13_NoIOUnderLock ==
  [](\A t \in Threads : thr[t].pc \in BackendPCs => mu # t)
  /\ [][fs' # fs => (mu = Free /\ mu' = Free)]_vars

C13_Witness ==
  /\ thr["t1"].pc = "upload_write"
  /\ thr["t2"].pc = "complete_mark"
  /\ mu = Free

\* the record a successful Create of input i at time t is to leave: the
\* caller's fields, and the store's defaults where the caller left them unset
Created(i, t) ==
  LET createdAt == IF i.CreatedAt = NoTime THEN t ELSE i.CreatedAt
  IN [ID |-> i.ID, Key |-> i.Key, CreatedAt |-> createdAt,
      ExpiresAt |-> IF i.ExpiresAt = NoTime THEN createdAt + TTL ELSE i.ExpiresAt,
      State |-> IF i.State = "" THEN ChunkSessionStateActive ELSE i.State,
      Parts |-> i.Parts, ProviderData |-> EmptyData]

\* what a Get of the session just created returns, issued in the same instant
GetCreated ==
  LET r == Get(sessions, heap, Live, now, last.id)
  IN [err |-> r.err, out |-> SView(r.heap, r.out)]

\* C14 as stated: after every successful Create, an immediate Get returns the
\* created record with the defaults filled in.
C14_Original ==
  (last.op = "Create" /\ last.err = OK /\ last.t = now)
    => /\ GetCreated.err = OK
       /\ GetCreated.out = Created(last.arg, last.t)
       /\ GetCreated.out = last.out

\* C14 amended: after a successful Create of a session whose expiry is not
\* before the current time, an immediate Get returns a record equal to the one
\* Create returned, holding the caller's fields and, where the caller left
\* them unset, createdAt = now, expiresAt = createdAt + TTL, state = active and
\* empty maps; a session created with an expiry already in the past is stored
\* but Get reports it as not found.
C14_GetAfterCreate ==
  (last.op = "Create" /\ last.err = OK /\ last.t = now)
    => IF Created(last.arg, last.t).ExpiresAt >= now
       THEN /\ GetCreated.err = OK
            /\ GetCreated.out = Created(last.arg, last.t)
            /\ GetCreated.out = last.out
       ELSE /\ GetCreated.err = ErrChunkSessionNotFound
            /\ SView(heap, sessions[last.id]) = Created(last.arg, last.t)

C14_Witness ==
  /\ last.op = "Create" /\ last.err = OK /\ last.t = 2 /\ now = 2
  /\ last.arg.CreatedAt = NoTime /\ last.arg.State = "" /\ last.arg.NilParts
  /\ GetCreated.out.ExpiresAt = 2 + TTL

\* C15: a Create of a well-formed session whose id is already in the store
\* fails with ErrChunkSessionExists, hands out no session, and leaves the
\* stored record (key, state, parts, timestamps, providerData) and every
\* other session as they were.
C15_CollisionRejected ==
  (last.op = "Create" /\ last.arg.ID # "" /\ last.arg.Key # ""
     /\ last.pre[last.arg.ID] # Nil /\ last.pre[last.arg.ID].ExpiresAt >= last.t)
    => /\ last.err = ErrChunkSessionExists
       /\ last.out = Nil
       /\ View(sessions, heap) = last.pre

C15_Witness ==
  /\ last.op = "Create" /\ last.err = ErrChunkSessionExists
  /\ last.pre["s1"] # Nil
  /\ last.pre["s1"].ExpiresAt >= last.t
  /\ last.pre["s1"].State = ChunkSessionStateCompleted
  /\ last.pre["s1"].Parts # EmptyMap
  /\ last.arg.State = "" /\ last.arg.NilParts

\* C16: CleanupExpired(t) removes exactly the sessions whose ExpiresAt is at
\* or before t, whatever their state, returns exactly the ids it removed, and
\* leaves every session expiring after t in the store, unchanged.
C16_CleanupExact ==
  last.op = "CleanupExpired"
    => /\ last.removed =
            {id \in IDs : last.pre[id] # Nil /\ last.pre[id].ExpiresAt <= last.arg}
       /\ \A id \in IDs :
            SView(heap, sessions[id]) = IF id \in last.removed THEN Nil ELSE last.pre[id]

C16_Witness ==
  /\ last.op = "CleanupExpired"
  /\ last.removed = {"s1"}
  /\ last.pre["s1"].ExpiresAt = last.arg
  /\ last.pre["s1"].State # ChunkSessionStateActive
  /\ sessions["s2"] # Nil /\ sessions["s2"].ExpiresAt > last.arg

\* C17: over a backend without the chunked capability, every InitiateChunked,
\* UploadChunk, CompleteChunked and AbortChunked whose arguments pass the
\* Manager's own validation returns ErrNotImplemented; no backend call was
\* made (no call result, nothing under the backend's directories, no session
\* id drawn, no call left in progress) and the store is as it was.
C17_NotImplemented ==
  /\ (Returning /\ (last.op = "InitiateChunked"
                      => last.err \notin {ErrInvalidPath, ErrValidation})
                /\ (last.op = "UploadChunk"
                      => last.index >= 0 /\ last.payload # Partial))
       => (last.err = ErrNotImplemented /\ last.berr = OK /\ ~last.touched)
  /\ fs = [chunks |-> EmptyMap, files |-> EmptyMap, local |-> EmptyMap]
  /\ hist.uuids = {}
  /\ \A t \in Threads : thr[t] = NoThread

C17_Witness ==
  /\ last.op = "UploadChunk" /\ last.err = ErrNotImplemented
  /\ last.index >= 0 /\ last.payload # Partial
  /\ sessions[last.id] # Nil
  /\ sessions[last.id].State = ChunkSessionStateActive
  /\ sessions[last.id].ExpiresAt > now

\* the HandleFile calls that stored their object and have returned
Handled == {n \in Names : up.result[n] \notin {"none", ErrValidation}}

\* C18: with the synchronous executor in strict mode, a HandleFile whose
\* callback returned an error after the object was stored fails with that
\* error, and the object was deleted from the backend as compensation.
C18_StrictCompensates ==
  (up.executor = SyncExecutor /\ up.mode = CallbackModeStrict)
    => \A n \in Handled \cap up.failed :
         /\ up.result[n] = ErrCallback
         /\ n \in up.deleted
         /\ n \notin up.files

C18_Witness ==
  /\ up.executor = SyncExecutor /\ up.mode = CallbackModeStrict
  /\ 1 \in Handled \cap up.failed
  /\ up.invoked[1] = 1

\* C19: in best-effort mode a callback that returned an error has not failed
\* the upload: the call returned success, the object is still in the backend
\* and was never deleted, and the callback ran exactly once.
C19_BestEffortSucceeds ==
  up.mode = CallbackModeBestEffort
    => \A n \in up.failed :
         /\ up.result[n] = OK
         /\ n \in up.files
         /\ n \notin up.deleted
         /\ up.invoked[n] = 1

C19_Witness ==
  /\ up.mode = CallbackModeBestEffort /\ up.executor = SyncExecutor
  /\ 1 \in up.failed
  /\ up.result[1] = OK
  /\ 1 \in up.logged

\* C20: with the asynchronous executor, in strict as in best-effort mode,
\* every HandleFile that stored its object returns success and keeps the
\* object whatever its callback returns, before or after the return; and
\* every callback handed to the executor is eventually run, once.
C20_AsyncNeverFails ==
  /\ [](up.executor = AsyncExecutor
          => \A n \in Handled :
               /\ up.result[n] = OK
               /\ n \in up.files
               /\ n \notin up.deleted
               /\ up.invoked[n] <= 1)
  /\ \A n \in Names :
       (n \in up.pending) ~> (n \notin up.pending /\ up.invoked[n] = 1)

C20_Witness ==
  /\ up.executor = AsyncExecutor /\ up.mode = CallbackModeStrict
  /\ up.result[1] = OK
  /\ 1 \in up.failed
  /\ 2 \in up.pending /\ up.result[2] = OK

\* C21: whatever a callback dispatched asynchronously does in its goroutine,
\* return an error or panic, the process keeps running.
C21_NeverCrashes == ~up.crashed

\* C22 as stated: a CompleteChunked call has handed the registered callback
\* to the executor if and only if it returns success.
C22_Original ==
  (last.op = "CompleteChunked" /\ up.callback)
    => (last.err = OK <=> last.cb # "none")

\* C22 amended: every CompleteChunked that returns success has handed the
\* registered callback to the executor, once, after the backend completed the
\* upload; a callback handed to the asynchronous executor is eventually run;
\* and a CompleteChunked that fails has not invoked the callback, unless it
\* fails with the callback's own error, in strict mode with the synchronous
\* executor.
C22_CallbackAfterCompletion ==
  /\ []((last.op = "CompleteChunked" /\ up.callback)
          => /\ last.err = OK => last.cb # "none"
             /\ last.cb # "none" => hist.completes[last.id] >= 1
             /\ (last.err # OK /\ last.cb # "none")
                  => /\ last.err = ErrCallback /\ last.cb = "failed"
                     /\ up.mode = CallbackModeStrict
                     /\ up.executor = SyncExecutor)
  /\ [](hist.spawned <= 1 /\ hist.run <= hist.spawned)
  /\ (hist.spawned >= 1) ~> (hist.run >= 1)

C22_Witness ==
  /\ last.op = "CompleteChunked" /\ last.err = OK /\ last.cb = "spawned"
  /\ up.mode = CallbackModeStrict
  /\ hist.run = 0

\* C23: Delete returns no error and removes the session of the given id; on
\* an id that is absent (a second Delete of it included) it leaves the store
\* exactly as it was; and it never changes a session of another id.
C23_DeleteIdempotent ==
  last.op = "Delete"
    => /\ last.err = OK
       /\ sessions[last.id] = Nil
       /\ \A id \in IDs \ {last.id} : SView(heap, sessions[id]) = last.pre[id]
       /\ last.pre[last.id] = Nil => View(sessions, heap) = last.pre

C23_Witness ==
  /\ last.op = "Delete" /\ last.id = "s1"
  /\ last.pre["s1"] = Nil
  /\ sessions["s2"] # Nil
  /\ MapVal(heap, sessions["s2"].UploadedParts) # EmptyMap

\* C24: a Create of a well-formed session that follows the Delete of a stored
\* session with the same id succeeds, and the session stored and returned is
\* the new definition with the store's defaults: active unless the definition
\* says otherwise, with the definition's parts only, nothing of the removed
\* session's parts or state.
C24_ReuseAfterDelete ==
  (last.op = "Create" /\ last.reuse /\ last.arg.Key # "")
    => /\ last.err = OK
       /\ SView(heap, sessions[last.id]) = Created(last.arg, last.t)
       /\ last.out = Created(last.arg, last.t)

C24_Witness ==
  /\ last.op = "Create" /\ last.reuse /\ last.err = OK
  /\ last.arg.NilParts /\ last.arg.State = ""
  /\ sessions[last.id].State = ChunkSessionStateActive
  /\ MapVal(heap, sessions[last.id].UploadedParts) = EmptyMap

\* C25: with concurrent callers, every started call of a store method
\* eventually gets the lock and returns, and the lock is released on every
\* return, error returns included: it is held only by a caller inside a
\* method.
C25_NeverBlocks ==
  /\ \A t \in Threads : (thr[t].pc = "store_wait") ~> (thr[t].pc = "done")
  /\ \A t \in Threads : (thr[t].pc = "store_locked") ~> (thr[t].pc = "done")
  /\ [](mu # Free => thr[mu].pc = "store_locked")

C25_Witness ==
  /\ thr["t1"].pc = "store_wait" /\ thr["t1"].op = "AddPart"
  /\ thr["t2"].pc = "store_locked" /\ thr["t2"].op = "MarkCompleted"
  /\ mu = "t2"
  /\ sessions["s1"] # Nil /\ sessions["s1"].State = ChunkSessionStateAborted

\* C26 as stated: with no provider every Manager operation returns
\* ErrProviderNotConfigured, and after a failed validation every Manager
\* operation returns the validation error, without the backend and without
\* another validation; a validated provider is not validated again.
ProviderOp == last.op \in ManagerOps

StickyProvider ==
  LET pre == last.arg.pre
  IN /\ pre.provider = NoProvider =>
          last.err = ErrProviderNotConfigured /\ ~last.arg.backend
     /\ pre.providerErr # OK =>
          /\ last.err = pre.providerErr
          /\ ~last.arg.backend /\ ~last.arg.ran
          /\ mgr = pre
     /\ pre.validated => ~last.arg.ran /\ mgr = pre

C26_Original == ProviderOp => StickyProvider

\* C26 (amended): a Manager operation whose arguments pass the checks it makes
\* before ensureProvider returns ErrProviderNotConfigured when no provider is
\* configured and the stored validation error after a failed validation,
\* without the backend and without another validation, and does not validate
\* a validated provider again; an operation whose arguments fail those checks
\* returns their error, and it too leaves the provider and its validation
\* alone. The stored error is there exactly while the provider is attached
\* and not validated.
C26_StickyProviderError ==
  /\ (ProviderOp /\ last.arg.valid) => StickyProvider
  /\ (ProviderOp /\ ~last.arg.valid) =>
        /\ last.err = ErrValidation
        /\ ~last.arg.backend /\ ~last.arg.ran /\ mgr = last.arg.pre
  /\ mgr.provider # NoProvider => (mgr.validated <=> mgr.providerErr = OK)
  /\ mgr.provider = NoProvider => mgr.providerErr = OK

C26_Witness ==
  /\ ProviderOp /\ last.arg.valid
  /\ last.arg.pre.providerErr = ErrProviderValidation
  /\ last.err = ErrProviderValidation
  /\ last.op = "UploadChunk"

\* C27: a Create whose session has an empty id or an empty key returns the
\* validation error, hands out no session, and leaves the stored sessions as
\* they were.
EmptyDefinition ==
  /\ last.op = "Create"
  /\ IF last.arg.ID = "" THEN TRUE ELSE last.arg.Key = ""

C27_EmptyRejected ==
  EmptyDefinition =>
    /\ last.err = ErrValidation
    /\ last.out = Nil
    /\ View(sessions, heap) = last.pre

\* an empty key is rejected while the id's session is stored
C27_Witness ==
  /\ EmptyDefinition
  /\ last.arg.ID = "s1" /\ last.arg.Key = ""
  /\ last.pre["s1"] # Nil
  /\ last.err = ErrValidation

\* C28: when a CompleteChunked returns success, the artifact it assembled
\* holds every part of the session whose UploadChunk has returned success.
C28_NoAckedPartLost ==
  (last.op = "CompleteChunked" /\ last.err = OK) =>
    hist.acked[last.id] \subseteq last.assembled

\* C29: a call of UploadChunk, CompleteChunked or AbortChunked goes on from
\* getChunkSession to the backend only when the session it resolved is
\* active in the store at that moment.
BackendEntry == {"upload_stat", "complete_assemble", "abort_backend"}

Resolves(t) == thr[t].pc = "done" /\ thr'[t].pc \in BackendEntry

C29_NoBackendForClosed ==
  [][\A t \in Threads :
       Resolves(t) =>
         sessions[thr'[t].id].State = ChunkSessionStateActive]_vars

\* C30: for no session does the backend both assemble the artifact and
\* discard the staged data successfully, and CompleteChunked and AbortChunked
\* do not both return success for it.
OneSuccess == \A id \in IDs : Cardinality(hist.succeeded[id]) <= 1

C30_CompleteXorAbort ==
  /\ \A id \in IDs : ~(hist.completes[id] > 0 /\ id \in hist.discarded)
  /\ OneSuccess

\* C31: a CompleteChunked that returns an error has not assembled the
\* artifact: the backend's CompleteChunked did not succeed within the call.
BackendCompleted == last.assembled # {} /\ last.berr = OK

C31_ErrorMeansNotAssembled ==
  (last.op = "CompleteChunked" /\ last.err # OK) => ~BackendCompleted

\* C32: an UploadChunk is not rejected as a duplicate because of what a
\* failed write of the same part left behind: when it returns
\* ErrChunkPartDuplicate, the chunk staged for its index is a whole payload.
Leftover(id, index) ==
  /\ id \in DOMAIN fs.chunks
  /\ index \in DOMAIN fs.chunks[id]
  /\ fs.chunks[id][index] = Partial

C32_RetryAfterFailedWrite ==
  (last.op = "UploadChunk" /\ last.err = ErrChunkPartDuplicate) =>
    ~Leftover(last.id, last.index)

\* C33: when an UploadChunk is rejected with ErrChunkPartDuplicate, what the
\* backend holds for the index is what the part recorded in the store
\* describes: the data of the first accepted upload.
Recorded(id) == MapVal(heap, RefOf(sessions[id]))

C33_DuplicateLeavesBackend ==
  (/\ last.op = "UploadChunk" /\ last.err = ErrChunkPartDuplicate
   /\ sessions[last.id] # Nil
   /\ last.index \in DOMAIN Recorded(last.id)) =>
    /\ last.id \in DOMAIN fs.chunks
    /\ last.index \in DOMAIN fs.chunks[last.id]
    /\ fs.chunks[last.id][last.index] = Recorded(last.id)[last.index].Size

\* C34: at every time the lazy expiry of Get and AddPart and the sweep agree
\* on a stored session: Get returns it, and AddPart does not report
\* NotFound, exactly when CleanupExpired at that time does not remove it.
C34_ExpiryAgrees ==
  \A id \in IDs :
    sessions[id] # Nil =>
      /\ Get(sessions, heap, Live, now, id).err = OK
            <=> id \notin ExpiredIDs(sessions, now)
      /\ AddPart(sessions, heap, Live, now, id, ChunkPart(0, 1, now)).err
              # ErrChunkSessionNotFound
            <=> id \notin ExpiredIDs(sessions, now)

\* C35: Create fails with ErrChunkSessionExists only when the id is that of
\* a stored session that is not past its expiresAt.
C35_ExpiredIsAbsent ==
  (last.op = "Create" /\ last.err = ErrChunkSessionExists) =>
    /\ last.pre[last.id] # Nil
    /\ ~(last.t > last.pre[last.id].ExpiresAt)

\* C36: MarkCompleted and MarkAborted on a session past its expiresAt fail
\* with ErrChunkSessionNotFound and do not change its state.
C36_ExpiredNeverClosed ==
  (/\ last.op \in {"MarkCompleted", "MarkAborted"}
   /\ last.pre[last.id] # Nil
   /\ last.t > last.pre[last.id].ExpiresAt) =>
    /\ last.err = ErrChunkSessionNotFound
    /\ (sessions[last.id] # Nil => sessions[last.id].State = last.pre[last.id].State)

\* C37: AddPart returns the first failure in the order NotFound (absent or
\* expired, the expired entry purged), Closed, OutOfRange, Duplicate.
ListedError(pre, t, part) ==
  IF pre = Nil THEN ErrChunkSessionNotFound
  ELSE IF t > pre.ExpiresAt THEN ErrChunkSessionNotFound
  ELSE IF pre.State # ChunkSessionStateActive THEN ErrChunkSessionClosed
  ELSE IF part.Index < 0 THEN ErrChunkPartOutOfRange
  ELSE IF part.Index \in DOMAIN pre.Parts THEN ErrChunkPartDuplicate
  ELSE OK

C37_AddPartErrorOrder ==
  last.op = "AddPart" =>
    /\ last.err = ListedError(last.pre[last.id], last.t, last.arg)
    /\ (last.pre[last.id] # Nil /\ last.t > last.pre[last.id].ExpiresAt)
          => sessions[last.id] = Nil

\* C38: a successful UploadChunk(id, i) records its part under index i with
\* part.Index = i, whatever index the backend's descriptor carried, and no
\* other index of the session gains or changes a part; every recorded part
\* carries the index it is recorded under.
Registers(t) ==
  /\ thr[t].pc = "upload_addpart" /\ thr'[t].pc = "done"
  /\ last'.op = "UploadChunk" /\ last'.err = OK

IndexIsKey ==
  \A id \in IDs : \A k \in DOMAIN Recorded(id) : Recorded(id)[k].Index = k

C38_PartUnderRequestedIndex ==
  /\ [][\A t \in Threads :
         Registers(t) =>
           LET i == thr[t].index
               pre == Recorded(thr[t].id)
               post == MapVal(heap', RefOf(sessions'[thr[t].id]))
           IN /\ DOMAIN post = DOMAIN pre \cup {i}
              /\ post[i].Index = i
              /\ \A k \in DOMAIN pre : post[k] = pre[k]]_vars
  /\ []IndexIsKey

\* part 0 was registered under 0 although the backend staged and reported it
\* under index 1
C38_Witness ==
  /\ last.op = "UploadChunk" /\ last.err = OK /\ last.index = 0
  /\ 0 \in DOMAIN Recorded(last.id)
  /\ Recorded(last.id)[0].Index = 0
  /\ last.id \in DOMAIN fs.chunks
  /\ DOMAIN fs.chunks[last.id] = {1}

\* C39: the backend call of a CompleteChunked whose session has no uploaded
\* part fails with the backend's error, which the call returns; no artifact
\* is written and the session stays in the store, active and unchanged.
CompletesEmpty(t) ==
  /\ thr[t].pc = "complete_assemble" /\ thr'[t].pc # "complete_assemble"
  /\ MapVal(heap, RefOf(thr[t].session)) = EmptyMap

C39_ZeroPartsRejected ==
  [][\A t \in Threads :
       CompletesEmpty(t) =>
         /\ last'.op = "CompleteChunked"
         /\ last'.err = ErrNoParts /\ last'.berr = ErrNoParts
         /\ fs' = fs
         /\ View(sessions', heap') = View(sessions, heap)
         /\ sessions[thr[t].id] # Nil
         /\ sessions[thr[t].id].State = ChunkSessionStateActive]_vars

C39_Witness ==
  /\ last.op = "CompleteChunked" /\ last.err = ErrNoParts
  /\ sessions[last.id] # Nil
  /\ sessions[last.id].State = ChunkSessionStateActive
  /\ Recorded(last.id) = EmptyMap
  /\ fs.files = EmptyMap

\* C40: when a session leaves the store otherwise than by the Delete of a
\* CompleteChunked or AbortChunked (the purge of AddPart, CleanupExpired),
\* nothing staged for it is left at the backend.
Finishes(t) ==
  /\ thr[t].pc \in {"complete_delete", "abort_delete"}
  /\ thr'[t].pc # thr[t].pc

C40_NoStagingOutlivesSession ==
  [][\A id \in IDs :
       (/\ sessions[id] # Nil /\ sessions'[id] = Nil
        /\ \A t \in Threads : ~Finishes(t))
         => id \notin DOMAIN fs'.chunks]_vars

====
